---------------------------- MODULE Spec2Model ----------------------------
(***************************************************************************)
(* YouTube Highlight Editor: the client-side application (docs/js/app.js)  *)
(* and the description codec of the metadata Worker (worker.js).           *)
(*                                                                         *)
(* Times are held in tenths of a second (ds): the JavaScript number 1.5   *)
(* (seconds) is the integer 15 here.  0.1 s is 1, 0.5 s is 5, the 100 ms   *)
(* time-update interval is one Tick and the 300 ms clip-advance timeout is *)
(* three of them.  Text is a sequence of one-character strings, with "\n"  *)
(* as the line separator, so that split/join/trim/match/parseInt/padStart  *)
(* are computed character by character.                                    *)
(***************************************************************************)
EXTENDS Integers, Sequences, FiniteSets, TLC

\* JavaScript null for an id (ids are pairs <<source, number>>)
Null == <<>>

\* JavaScript null where a time is expected (recordingStart, parseTimestamp)
NoTime == -1

(***************************************************************************)
(* Text helpers (JavaScript String and Array built-ins).                   *)
(***************************************************************************)
Digits == <<"0", "1", "2", "3", "4", "5", "6", "7", "8", "9">>

IsDigit(c) == \E i \in 1..10 : Digits[i] = c

DigitVal(c) == (CHOOSE i \in 1..10 : Digits[i] = c) - 1

IsSpace(c) == c \in {" ", "\t", "\r"}

\* String.prototype.trim
RECURSIVE TrimLeft(_)
TrimLeft(s) == IF s # <<>> /\ IsSpace(Head(s)) THEN TrimLeft(Tail(s)) ELSE s

RECURSIVE TrimRight(_)
TrimRight(s) ==
    IF s # <<>> /\ IsSpace(s[Len(s)]) THEN TrimRight(SubSeq(s, 1, Len(s) - 1)) ELSE s

Trim(s) == TrimRight(TrimLeft(s))

\* String.prototype.split(sep) for a one-character separator
RECURSIVE SplitFrom(_, _, _)
SplitFrom(s, sep, cur) ==
    IF s = <<>> THEN <<cur>>
    ELSE IF Head(s) = sep THEN <<cur>> \o SplitFrom(Tail(s), sep, <<>>)
    ELSE SplitFrom(Tail(s), sep, Append(cur, Head(s)))

Split(s, sep) == SplitFrom(s, sep, <<>>)

\* Array.prototype.join(sep)
RECURSIVE Join(_, _)
Join(parts, sep) ==
    IF parts = <<>> THEN <<>>
    ELSE IF Len(parts) = 1 THEN parts[1]
    ELSE parts[1] \o <<sep>> \o Join(Tail(parts), sep)

\* parseInt on a string of decimal digits
RECURSIVE ParseInt(_)
ParseInt(s) ==
    IF s = <<>> THEN 0 ELSE 10 * ParseInt(SubSeq(s, 1, Len(s) - 1)) + DigitVal(s[Len(s)])

\* Number.prototype.toString for a non-negative integer
RECURSIVE NumToString(_)
NumToString(n) ==
    IF n < 10 THEN <<Digits[n + 1]>> ELSE Append(NumToString(n \div 10), Digits[(n % 10) + 1])

\* String.prototype.padStart(2, '0')
PadStart2(s) == IF Len(s) < 2 THEN <<"0">> \o s ELSE s

(***************************************************************************)
(* Worker: the range pattern                                               *)
(*   /^(\d+:\d{1,2}(?::\d{1,2})?)\s*-\s*(\d+:\d{1,2}(?::\d{1,2})?)$/       *)
(* Positions are 1-based; a matcher returns the position after the match,  *)
(* or 0 when there is none.  Digits, ':', '-' and blanks are disjoint      *)
(* classes, so the greedy match is the only match.                         *)
(***************************************************************************)
RECURSIVE SkipDigits(_, _)
SkipDigits(s, i) == IF i <= Len(s) /\ IsDigit(s[i]) THEN SkipDigits(s, i + 1) ELSE i

RECURSIVE SkipSpaces(_, _)
SkipSpaces(s, i) == IF i <= Len(s) /\ IsSpace(s[i]) THEN SkipSpaces(s, i + 1) ELSE i

\* \d{1,2} at position i
MatchDigits12(s, i) ==
    IF i <= Len(s) /\ IsDigit(s[i])
    THEN (IF i + 1 <= Len(s) /\ IsDigit(s[i + 1]) THEN i + 2 ELSE i + 1)
    ELSE 0

\* \d+:\d{1,2}(?::\d{1,2})? at position i
MatchTimestamp(s, i) ==
    LET a == SkipDigits(s, i) IN
    IF a = i \/ a > Len(s) \/ s[a] # ":" THEN 0
    ELSE LET b == MatchDigits12(s, a + 1) IN
         IF b = 0 THEN 0
         ELSE IF b <= Len(s) /\ s[b] = ":" /\ MatchDigits12(s, b + 1) # 0
              THEN MatchDigits12(s, b + 1)
              ELSE b

\* stripped.match(rangePattern): [ok, first, second]
MatchRange(s) ==
    LET e1 == MatchTimestamp(s, 1)
        d  == SkipSpaces(s, e1)
        s2 == SkipSpaces(s, d + 1)
        e2 == MatchTimestamp(s, s2)
        no == [ok |-> FALSE, first |-> <<>>, second |-> <<>>]
    IN  IF e1 = 0 THEN no
        ELSE IF d > Len(s) \/ s[d] # "-" THEN no
        ELSE IF e2 = 0 \/ e2 # Len(s) + 1 THEN no
        ELSE [ok |-> TRUE, first |-> SubSeq(s, 1, e1 - 1), second |-> SubSeq(s, s2, e2 - 1)]

\* parseTimestamp: seconds, or NoTime for null
parseTimestamp(ts) ==
    LET parts == Split(Trim(ts), ":") IN
    IF Len(parts) = 2 THEN ParseInt(parts[1]) * 60 + ParseInt(parts[2])
    ELSE IF Len(parts) = 3
         THEN ParseInt(parts[1]) * 3600 + ParseInt(parts[2]) * 60 + ParseInt(parts[3])
    ELSE NoTime

HighlightsHeader == <<"[", "H", "i", "g", "h", "l", "i", "g", "h", "t", "s", "]">>

\* a variant of the test below that ends the section at an empty line only
IsSectionEndAtBlankOnly(stripped) == stripped = <<>>

\* the loop's test for the end of the section
IsSectionEnd(stripped) ==
    stripped = <<>> \/ (Head(stripped) = "[" /\ stripped[Len(stripped)] = "]")

\* the pair a line contributes, as a sequence of zero or one {start_time, end_time}
RangeOfLine(stripped) ==
    LET m == MatchRange(stripped) IN
    IF ~m.ok THEN <<>>
    ELSE LET startTime == parseTimestamp(m.first)
             endTime   == parseTimestamp(m.second)
         IN  IF startTime # NoTime /\ endTime # NoTime /\ endTime > startTime
             THEN <<[start_time |-> startTime, end_time |-> endTime]>>
             ELSE <<>>

\* the for-loop of parseHighlightsFromDescription over the remaining lines
RECURSIVE ParseLines(_, _)
ParseLines(lines, inSection) ==
    IF lines = <<>> THEN <<>>
    ELSE LET stripped == Trim(Head(lines)) IN
         IF stripped = HighlightsHeader THEN ParseLines(Tail(lines), TRUE)
         ELSE IF ~inSection THEN ParseLines(Tail(lines), FALSE)
         ELSE IF IsSectionEnd(stripped) THEN <<>>
         ELSE RangeOfLine(stripped) \o ParseLines(Tail(lines), TRUE)

\* parseHighlightsFromDescription: times in seconds
parseHighlightsFromDescription(description) ==
    IF description = <<>> THEN <<>> ELSE ParseLines(Split(description, "\n"), FALSE)

(***************************************************************************)
(* app.js: export to the description format                                *)
(***************************************************************************)
\* Math.round on a non-negative time held in tenths: halves round up
RoundToSeconds(t) == (t + 5) \div 10

\* a variant of formatTimestampForDescription that never writes the hours
formatTimestampWithoutHours(seconds) ==
    LET totalSecs == RoundToSeconds(seconds)
        minutes   == (totalSecs % 3600) \div 60
        secs      == totalSecs % 60
    IN  NumToString(minutes) \o <<":">> \o PadStart2(NumToString(secs))

\* formatTimestampForDescription
formatTimestampForDescription(seconds) ==
    LET totalSecs == RoundToSeconds(seconds)
        hours     == totalSecs \div 3600
        minutes   == (totalSecs % 3600) \div 60
        secs      == totalSecs % 60
    IN  IF hours > 0
        THEN NumToString(hours) \o <<":">> \o PadStart2(NumToString(minutes))
                 \o <<":">> \o PadStart2(NumToString(secs))
        ELSE NumToString(minutes) \o <<":">> \o PadStart2(NumToString(secs))

\* [...list].sort((a, b) => a.start_time - b.start_time): a stable sort
RECURSIVE InsertByStart(_, _)
InsertByStart(sorted, h) ==
    IF sorted = <<>> THEN <<h>>
    ELSE IF sorted[Len(sorted)].start_time <= h.start_time THEN Append(sorted, h)
    ELSE Append(InsertByStart(SubSeq(sorted, 1, Len(sorted) - 1), h), sorted[Len(sorted)])

RECURSIVE SortByStart(_)
SortByStart(list) ==
    IF list = <<>> THEN <<>>
    ELSE InsertByStart(SortByStart(SubSeq(list, 1, Len(list) - 1)), list[Len(list)])

\* `${window.location.origin}${window.location.pathname}?v=${youtubeVideoId}`
WatchUrl == <<"h", "t", "t", "p", "s", ":", "/", "/", "h", "/", "w", "?", "v", "=", "V">>

\* `${start} - ${end}`
RangeLine(h) ==
    formatTimestampForDescription(h.start_time) \o <<" ", "-", " ">>
        \o formatTimestampForDescription(h.end_time)

\* a variant of ExportText that writes the highlights in the order of the list
ExportTextInListOrder(list) ==
    LET lines == <<WatchUrl, <<>>, HighlightsHeader>>
                     \o [i \in 1..Len(list) |-> RangeLine(list[i])]
    IN  Join(lines, "\n")

\* the text copyForDescription hands to navigator.clipboard.writeText
ExportText(list) ==
    LET sorted == SortByStart(list)
        lines  == <<WatchUrl, <<>>, HighlightsHeader>>
                      \o [i \in 1..Len(sorted) |-> RangeLine(sorted[i])]
    IN  Join(lines, "\n")

(***************************************************************************)
(* Bounds of the model                                                     *)
(***************************************************************************)
\* the length of the video, in tenths of a second
VideoLen == 20

\* the most highlights the list is let to hold
MaxHighlights == 2

\* the largest value highlightCounter is let to reach
MaxCounter == 3

\* the instants (whole seconds) at which the bracket keys are pressed and the
\* timeline is clicked
MarkTimes == {t \in 0..VideoLen : t % 10 = 0}

(***************************************************************************)
(* app.js: constants                                                       *)
(***************************************************************************)
JUMP_LARGE == 50

JUMP_SMALL == 20

\* setTimeout(..., 300) in onPlayAllTimeUpdate, in periods of the 100 ms interval
ClipAdvanceDelay == 3

(***************************************************************************)
(* app.js: state                                                           *)
(***************************************************************************)
VARIABLES
    phase,                \* "loading" | "error" | "loaded": which of loading-state,
                          \* error-state and editor-layout is shown
    highlights,           \* let highlights = []
    selectedHighlightId,  \* let selectedHighlightId = null
    recordingStart,       \* let recordingStart = null
    mode,                 \* let mode = 'watch'
    highlightCounter,     \* let highlightCounter = 0
    isPlayingAll,         \* let isPlayingAll = false
    playAllClipIndex,     \* let playAllClipIndex = 0
    playAllClips,         \* let playAllClips = []
    ytPlayerReady,        \* let ytPlayerReady = false
    playerTime,           \* the YouTube player's current time
    playerState,          \* "playing" | "paused" (any state but PLAYING)
    playbackRate,         \* the player's playback rate, in tenths
    ytDuration,           \* ytPlayer.getDuration(): the length of the video
    advanceTimers,        \* pending setTimeout callbacks of onPlayAllTimeUpdate:
                          \* the interval periods left until each is due
    lastSought,           \* history: the clip index playCurrentClip sought to last
                          \* in the running playback, -1 when there is none
    staleTimers,          \* history: the timers of advanceTimers that were set
                          \* before the last call of startPlayAll
    written,              \* the text the last handler wrote to the clipboard, or Null
    codecIn,              \* input of the codec under test (SpecCodec)
    codecOut              \* its result

\* the Worker (worker.js) and what it talks to
VARIABLES
    ytVideos,             \* YouTube: for each video id, whether the video exists
                          \* and the description it has now
    kvConfigured,         \* whether env.YT_CACHE is bound
    kv,                   \* env.YT_CACHE: for each key, the entry stored and its age
    request,              \* the request the Worker handled last
    response,             \* the response it gave
    workerLog             \* what handling it did: cache reads, API calls, cache writes

workerVars == <<ytVideos, kvConfigured, kv, request, response, workerLog>>

VARIABLE videoDescription \* the description of the video the page is opened for

\* the analysis pipeline (detection, scoring, preference learning, jobs)
VARIABLES
    hits,                 \* the BallHit list of the analysed track, in time order
    curves,               \* its crowd and motion curves, one sample a second
    params,               \* the parameters of the RallyDetector
    rallies,              \* the current Rally list
    config,               \* the CompilationConfig
    weights,              \* the current weight vector
    scoredRallies,        \* the current ScoredRally list, in rank order
    feedbackCount,        \* the feedback records submitted so far
    jobs,                 \* the jobs in flight, each a source and a kind, in the
                          \* order they were accepted
    lastError             \* the error of the last request, or "none"

pipelineVars == <<hits, curves, params, rallies, config, weights, scoredRallies,
                  feedbackCount, jobs, lastError>>

serviceVars == <<workerVars, videoDescription, pipelineVars>>

appVars == <<phase, highlights, selectedHighlightId, recordingStart, mode,
             highlightCounter, isPlayingAll, playAllClipIndex, playAllClips,
             ytPlayerReady, playerTime, playerState, playbackRate, advanceTimers,
             lastSought, staleTimers>>

vars == <<appVars, ytDuration, written, codecIn, codecOut, serviceVars>>

\* the mutable state the handlers work on, as one record
Cur ==
    [highlights |-> highlights, selectedHighlightId |-> selectedHighlightId,
     recordingStart |-> recordingStart, mode |-> mode,
     highlightCounter |-> highlightCounter, isPlayingAll |-> isPlayingAll,
     playAllClipIndex |-> playAllClipIndex, playAllClips |-> playAllClips,
     ytPlayerReady |-> ytPlayerReady, playerTime |-> playerTime,
     playerState |-> playerState, playbackRate |-> playbackRate,
     ytDuration |-> ytDuration, advanceTimers |-> advanceTimers,
     lastSought |-> lastSought, staleTimers |-> staleTimers]

\* the state a handler leaves behind
Commit(s) ==
    /\ highlights' = s.highlights
    /\ selectedHighlightId' = s.selectedHighlightId
    /\ recordingStart' = s.recordingStart
    /\ mode' = s.mode
    /\ highlightCounter' = s.highlightCounter
    /\ isPlayingAll' = s.isPlayingAll
    /\ playAllClipIndex' = s.playAllClipIndex
    /\ playAllClips' = s.playAllClips
    /\ ytPlayerReady' = s.ytPlayerReady
    /\ playerTime' = s.playerTime
    /\ playerState' = s.playerState
    /\ playbackRate' = s.playbackRate
    /\ advanceTimers' = s.advanceTimers
    /\ lastSought' = s.lastSought
    /\ staleTimers' = s.staleTimers

\* the model's bounds on what a handler may build
WithinBounds(s) ==
    /\ Len(s.highlights) <= MaxHighlights
    /\ s.highlightCounter <= MaxCounter

(***************************************************************************)
(* app.js: VideoPlayer                                                     *)
(***************************************************************************)
Min(a, b) == IF a <= b THEN a ELSE b

Max(a, b) == IF a >= b THEN a ELSE b

getCurrentTime(s) == IF s.ytPlayerReady THEN s.playerTime ELSE 0

\* ytPlayer.getDuration() || videoDuration; videoDuration is 0 until onReady
getDuration(s) == IF s.ytPlayerReady THEN s.ytDuration ELSE 0

\* a variant of setCurrentTime that seeks to the time it is given
setCurrentTimeUnclamped(s, time) ==
    IF s.ytPlayerReady THEN [s EXCEPT !.playerTime = time] ELSE s

setCurrentTime(s, time) ==
    LET t == Max(0, Min(time, getDuration(s))) IN
    IF s.ytPlayerReady THEN [s EXCEPT !.playerTime = t] ELSE s

play(s) == IF s.ytPlayerReady THEN [s EXCEPT !.playerState = "playing"] ELSE s

pause(s) == IF s.ytPlayerReady THEN [s EXCEPT !.playerState = "paused"] ELSE s

isPaused(s) == IF s.ytPlayerReady THEN s.playerState # "playing" ELSE TRUE

getPlaybackRate(s) == IF s.ytPlayerReady THEN s.playbackRate ELSE 10

\* Math.round(Math.max(0.1, Math.min(rate, 4.0)) * 10) / 10
\* a variant of ClampRate without the bounds
ClampRateUnbounded(rate) == rate

ClampRate(rate) == Max(1, Min(rate, 40))

setPlaybackRate(s, rate) ==
    IF s.ytPlayerReady THEN [s EXCEPT !.playbackRate = ClampRate(rate)] ELSE s

(***************************************************************************)
(* app.js: sequential playback (watch mode)                                *)
(***************************************************************************)
stopPlayAll(s) == pause([s EXCEPT !.isPlayingAll = FALSE, !.lastSought = -1])

playCurrentClip(s) ==
    IF ~s.isPlayingAll \/ s.playAllClipIndex >= Len(s.playAllClips)
    THEN stopPlayAll(s)
    ELSE LET clip == s.playAllClips[s.playAllClipIndex + 1] IN
         play(setCurrentTime([s EXCEPT !.lastSought = s.playAllClipIndex],
                             clip.start_time))

startPlayAll(s) ==
    IF Len(s.highlights) = 0 THEN s
    ELSE playCurrentClip([s EXCEPT !.playAllClips = SortByStart(s.highlights),
                                   !.playAllClipIndex = 0,
                                   !.isPlayingAll = TRUE,
                                   !.lastSought = -1,
                                   !.staleTimers = s.advanceTimers])

\* the test that the current clip has reached its end
ClipEnded(clip, currentTime) == currentTime >= clip.end_time - 1

\* a variant of onPlayAllTimeUpdate that does not stop the playback after the
\* last clip
onPlayAllTimeUpdateNoStop(s) ==
    IF ~s.isPlayingAll \/ s.playAllClipIndex >= Len(s.playAllClips) THEN s
    ELSE LET clip == s.playAllClips[s.playAllClipIndex + 1] IN
         IF ClipEnded(clip, getCurrentTime(s))
         THEN LET n == [s EXCEPT !.playAllClipIndex = @ + 1] IN
              IF n.playAllClipIndex < Len(n.playAllClips)
              THEN [n EXCEPT !.advanceTimers = @ \cup {ClipAdvanceDelay}]
              ELSE n
         ELSE s

onPlayAllTimeUpdate(s) ==
    IF ~s.isPlayingAll \/ s.playAllClipIndex >= Len(s.playAllClips) THEN s
    ELSE LET clip == s.playAllClips[s.playAllClipIndex + 1] IN
         IF ClipEnded(clip, getCurrentTime(s))
         THEN LET n == [s EXCEPT !.playAllClipIndex = @ + 1] IN
              IF n.playAllClipIndex < Len(n.playAllClips)
              THEN [n EXCEPT !.advanceTimers = @ \cup {ClipAdvanceDelay}]
              ELSE stopPlayAll(n)
         ELSE s

\* the setTimeout callback of onPlayAllTimeUpdate
\* a variant of onAdvanceTimeout that calls playCurrentClip without testing
\* isPlayingAll
onAdvanceTimeoutUntested(s) == playCurrentClip(s)

onAdvanceTimeout(s) == IF s.isPlayingAll THEN playCurrentClip(s) ELSE s

(***************************************************************************)
(* app.js: mode management                                                 *)
(***************************************************************************)
\* a variant of cancelRecording that drops the selection too
cancelRecordingAndDeselect(s) ==
    [s EXCEPT !.recordingStart = NoTime, !.selectedHighlightId = Null]

cancelRecording(s) == [s EXCEPT !.recordingStart = NoTime]

\* a variant of setMode that lets a recording survive the switch to watch mode
setModeKeepRecording(s, newMode) ==
    LET a == [s EXCEPT !.mode = newMode] IN
    IF a.mode = "edit" /\ a.isPlayingAll THEN stopPlayAll(a) ELSE a

setMode(s, newMode) ==
    LET a == [s EXCEPT !.mode = newMode]
        b == IF a.mode = "edit" /\ a.isPlayingAll THEN stopPlayAll(a) ELSE a
    IN  IF b.mode = "watch" /\ b.recordingStart # NoTime THEN cancelRecording(b) ELSE b

(***************************************************************************)
(* app.js: highlight CRUD                                                  *)
(***************************************************************************)
\* highlights.find(h => h.id === id): the index, or 0 when there is none
FindIndex(list, id) ==
    IF \E i \in 1..Len(list) : list[i].id = id
    THEN CHOOSE i \in 1..Len(list) : list[i].id = id /\ \A j \in 1..(i - 1) : list[j].id # id
    ELSE 0

\* Array.prototype.filter
RECURSIVE FilterOutId(_, _)
FilterOutId(list, id) ==
    IF list = <<>> THEN <<>>
    ELSE IF Head(list).id = id THEN FilterOutId(Tail(list), id)
    ELSE <<Head(list)>> \o FilterOutId(Tail(list), id)

\* a variant of wouldOverlap that finds no overlap
wouldOverlapNothing(s, start, end, excludeId) == FALSE

wouldOverlap(s, start, end, excludeId) ==
    \E i \in 1..Len(s.highlights) :
        LET h == s.highlights[i] IN
        /\ h.id # excludeId
        /\ start < h.end_time
        /\ end > h.start_time

\* a variant of createHighlight that numbers the new highlight by the length of
\* the list
createHighlightNumberedByLength(s, start, end) ==
    LET counter   == s.highlightCounter + 1
        highlight == [id |-> <<"manual", Len(s.highlights) + 1>>, start_time |-> start,
                      end_time |-> end, duration |-> end - start, source |-> "manual"]
    IN  [s EXCEPT !.highlightCounter = counter,
                  !.highlights = SortByStart(Append(s.highlights, highlight)),
                  !.selectedHighlightId = highlight.id]

createHighlight(s, start, end) ==
    LET counter   == s.highlightCounter + 1
        highlight == [id |-> <<"manual", counter>>, start_time |-> start,
                      end_time |-> end, duration |-> end - start, source |-> "manual"]
    IN  [s EXCEPT !.highlightCounter = counter,
                  !.highlights = SortByStart(Append(s.highlights, highlight)),
                  !.selectedHighlightId = highlight.id]

\* a variant of Reassign that leaves the duration as it was
ReassignStaleDuration(list, id, start, end) ==
    [i \in 1..Len(list) |->
        IF list[i].id = id
        THEN [list[i] EXCEPT !.start_time = start, !.end_time = end]
        ELSE list[i]]

\* Object.assign(highlights[index], updates) and the recomputed duration act on
\* the highlight object itself, which playAllClips (a copy of the array, not of
\* its objects) may hold too
Reassign(list, id, start, end) ==
    [i \in 1..Len(list) |->
        IF list[i].id = id
        THEN [list[i] EXCEPT !.start_time = start, !.end_time = end,
                             !.duration = end - start]
        ELSE list[i]]

\* updateHighlight(id, { start_time: time })
updateHighlightStart(s, id, time) ==
    LET index == FindIndex(s.highlights, id) IN
    IF index >= 1
    THEN LET end == s.highlights[index].end_time IN
         [s EXCEPT !.highlights = SortByStart(Reassign(@, id, time, end)),
                   !.playAllClips = Reassign(@, id, time, end)]
    ELSE s

\* updateHighlight(id, { end_time: time })
updateHighlightEnd(s, id, time) ==
    LET index == FindIndex(s.highlights, id) IN
    IF index >= 1
    THEN LET start == s.highlights[index].start_time IN
         [s EXCEPT !.highlights = SortByStart(Reassign(@, id, start, time)),
                   !.playAllClips = Reassign(@, id, start, time)]
    ELSE s

\* a variant of deleteHighlight that leaves the selection as it is
deleteHighlightKeepSelection(s, id) == [s EXCEPT !.highlights = FilterOutId(@, id)]

deleteHighlight(s, id) ==
    [s EXCEPT !.highlights = FilterOutId(@, id),
              !.selectedHighlightId = IF @ = id THEN Null ELSE @]

\* a variant of deleteSelectedHighlight that removes the highlight and keeps the
\* selection
deleteSelectedHighlightStillSelected(s) ==
    IF s.selectedHighlightId # Null
    THEN [s EXCEPT !.highlights = FilterOutId(@, s.selectedHighlightId)]
    ELSE s

deleteSelectedHighlight(s) ==
    IF s.selectedHighlightId # Null THEN deleteHighlight(s, s.selectedHighlightId) ELSE s

\* a variant of selectHighlight that moves the playback cursor to the selected
\* highlight
selectHighlightMovingCursor(s, id) ==
    LET a     == [s EXCEPT !.selectedHighlightId = id]
        index == FindIndex(a.highlights, id)
    IN  IF index >= 1
        THEN LET b == setCurrentTime(a, a.highlights[index].start_time)
                 c == IF b.isPlayingAll /\ FindIndex(b.playAllClips, id) >= 1
                      THEN [b EXCEPT !.playAllClipIndex = FindIndex(b.playAllClips, id) - 1]
                      ELSE b
             IN  IF c.mode = "watch" THEN play(c) ELSE c
        ELSE a

selectHighlight(s, id) ==
    LET a     == [s EXCEPT !.selectedHighlightId = id]
        index == FindIndex(a.highlights, id)
    IN  IF index >= 1
        THEN LET b == setCurrentTime(a, a.highlights[index].start_time) IN
             IF b.mode = "watch" THEN play(b) ELSE b
        ELSE a

deselectHighlight(s) == [s EXCEPT !.selectedHighlightId = Null]

\* the highlight the bracket keys adjust: the selected one, when it is in the list
SelectedIndex(s) ==
    IF s.selectedHighlightId # Null THEN FindIndex(s.highlights, s.selectedHighlightId) ELSE 0

\* a variant of setHighlightStart that opens or moves the recording even at a
\* time inside a highlight
setHighlightStartAnywhere(s, time) ==
    LET index == IF s.recordingStart = NoTime THEN SelectedIndex(s) ELSE 0 IN
    IF index >= 1 /\ time < s.highlights[index].end_time
    THEN IF wouldOverlap(s, time, s.highlights[index].end_time, s.selectedHighlightId)
         THEN s
         ELSE updateHighlightStart(s, s.selectedHighlightId, time)
    ELSE [s EXCEPT !.recordingStart = time]

setHighlightStart(s, time) ==
    LET index == IF s.recordingStart = NoTime THEN SelectedIndex(s) ELSE 0 IN
    IF index >= 1 /\ time < s.highlights[index].end_time
    THEN IF wouldOverlap(s, time, s.highlights[index].end_time, s.selectedHighlightId)
         THEN s
         ELSE updateHighlightStart(s, s.selectedHighlightId, time)
    ELSE IF \E i \in 1..Len(s.highlights) :
                time >= s.highlights[i].start_time /\ time < s.highlights[i].end_time
         THEN s
         ELSE [s EXCEPT !.recordingStart = time]

\* a variant of finishRecording that leaves the recording open
finishRecordingStillOpen(s, time) == createHighlight(s, s.recordingStart, time)

\* setHighlightEnd: createHighlight(recordingStart, time); recordingStart = null
finishRecording(s, time) ==
    [createHighlight(s, s.recordingStart, time) EXCEPT !.recordingStart = NoTime]

setHighlightEnd(s, time) ==
    IF s.recordingStart # NoTime /\ time > s.recordingStart
    THEN IF wouldOverlap(s, s.recordingStart, time, Null)
         THEN s
         ELSE finishRecording(s, time)
    ELSE LET index == SelectedIndex(s) IN
         IF index >= 1 /\ time > s.highlights[index].start_time
         THEN IF wouldOverlap(s, s.highlights[index].start_time, time, s.selectedHighlightId)
              THEN s
              ELSE updateHighlightEnd(s, s.selectedHighlightId, time)
         ELSE s

jumpToPrevHighlight(s) ==
    IF Len(s.highlights) = 0 THEN s
    ELSE LET currentTime == getCurrentTime(s)
             before == {i \in 1..Len(s.highlights) :
                            s.highlights[i].start_time < currentTime - 5}
         IN  IF before # {}
             THEN selectHighlight(s, s.highlights[CHOOSE i \in before :
                                                      \A j \in before : j <= i].id)
             ELSE selectHighlight(s, s.highlights[Len(s.highlights)].id)

jumpToNextHighlight(s) ==
    IF Len(s.highlights) = 0 THEN s
    ELSE LET currentTime == getCurrentTime(s)
             after == {i \in 1..Len(s.highlights) :
                           s.highlights[i].start_time > currentTime + 5}
         IN  IF after # {}
             THEN selectHighlight(s, s.highlights[CHOOSE i \in after :
                                                      \A j \in after : i <= j].id)
             ELSE selectHighlight(s, s.highlights[1].id)

(***************************************************************************)
(* Video descriptions the Worker is given (the model's inputs).  Their     *)
(* timestamps lie within a video of VideoLen.                              *)
(***************************************************************************)
\* "Match"
DescPlain ==
    <<"M", "a", "t", "c", "h">>

\* "[Highlights]\n0:01 - 0:02"
DescOne ==
    <<"[", "H", "i", "g", "h", "l", "i", "g", "h", "t", "s", "]", "\n", "0",
      ":", "0", "1", " ", "-", " ", "0", ":", "0", "2">>

\* "Best\n\n[Highlights]\n0:00 - 0:01\n0:01 - 0:02\n\n0:00 - 0:02"
DescTwo ==
    <<"B", "e", "s", "t", "\n", "\n", "[", "H", "i", "g", "h", "l", "i", "g",
      "h", "t", "s", "]", "\n", "0", ":", "0", "0", " ", "-", " ", "0", ":",
      "0", "1", "\n", "0", ":", "0", "1", " ", "-", " ", "0", ":", "0", "2",
      "\n", "\n", "0", ":", "0", "0", " ", "-", " ", "0", ":", "0", "2">>

\* "[Highlights]\n0:00 - 0:02\n0:00 - 0:01"
DescNested ==
    <<"[", "H", "i", "g", "h", "l", "i", "g", "h", "t", "s", "]", "\n", "0",
      ":", "0", "0", " ", "-", " ", "0", ":", "0", "2", "\n", "0", ":", "0",
      "0", " ", "-", " ", "0", ":", "0", "1">>

\* "[Highlights]\n0:01 - 0:02\n0:00 - 0:01"
DescUnsorted ==
    <<"[", "H", "i", "g", "h", "l", "i", "g", "h", "t", "s", "]", "\n", "0",
      ":", "0", "1", " ", "-", " ", "0", ":", "0", "2", "\n", "0", ":", "0",
      "0", " ", "-", " ", "0", ":", "0", "1">>

\* " [Highlights] \n0:02 - 0:01\nnote\n0:00-0:02\n[Links]\n0:00 - 0:01"
DescMixed ==
    <<" ", "[", "H", "i", "g", "h", "l", "i", "g", "h", "t", "s", "]", " ",
      "\n", "0", ":", "0", "2", " ", "-", " ", "0", ":", "0", "1", "\n", "n",
      "o", "t", "e", "\n", "0", ":", "0", "0", "-", "0", ":", "0", "2", "\n",
      "[", "L", "i", "n", "k", "s", "]", "\n", "0", ":", "0", "0", " ", "-",
      " ", "0", ":", "0", "1">>

Descriptions ==
    {<<>>, DescPlain, DescOne, DescTwo, DescNested, DescUnsorted, DescMixed}

(***************************************************************************)
(* app.js: the keydown handler of setupKeyboardShortcuts                   *)
(***************************************************************************)
\* a variant of onDeleteKey that does not test the mode
onDeleteKeyInAnyMode(s) == deleteSelectedHighlight(s)

\* case 'Backspace': case 'Delete'
onDeleteKey(s) == IF s.mode = "edit" THEN deleteSelectedHighlight(s) ELSE s

\* a variant of onEscapeKey that leaves edit mode at once
onEscapeKeyOneStep(s) ==
    IF s.mode = "edit" THEN setMode(deselectHighlight(s), "watch")
    ELSE deselectHighlight(s)

\* case 'Escape'
onEscapeKey(s) ==
    IF s.mode = "edit"
    THEN (IF s.selectedHighlightId # Null THEN deselectHighlight(s)
          ELSE setMode(s, "watch"))
    ELSE deselectHighlight(s)

keydown(s, key, isMeta) ==
    LET currentTime == getCurrentTime(s) IN
    CASE key = "ArrowUp" ->
            IF isMeta
            THEN (IF Len(s.highlights) > 0
                  THEN selectHighlight(s, s.highlights[1].id) ELSE s)
            ELSE jumpToPrevHighlight(s)
      [] key = "ArrowDown" ->
            IF isMeta
            THEN (IF Len(s.highlights) > 0
                  THEN selectHighlight(s, s.highlights[Len(s.highlights)].id) ELSE s)
            ELSE jumpToNextHighlight(s)
      [] key = "ArrowLeft"  -> setCurrentTime(s, currentTime - JUMP_LARGE)
      [] key = "ArrowRight" -> setCurrentTime(s, currentTime + JUMP_LARGE)
      [] key = "z" -> setCurrentTime(s, currentTime - JUMP_SMALL)
      [] key = "x" -> setCurrentTime(s, currentTime + JUMP_SMALL)
      [] key = "[" ->
            IF s.mode = "edit"
            THEN (IF isMeta THEN jumpToPrevHighlight(s)
                  ELSE setHighlightStart(s, currentTime))
            ELSE s
      [] key = "]" ->
            IF s.mode = "edit"
            THEN (IF isMeta THEN jumpToNextHighlight(s)
                  ELSE setHighlightEnd(s, currentTime))
            ELSE s
      [] key = " " -> IF isPaused(s) THEN play(s) ELSE pause(s)
      [] key \in {"Backspace", "Delete"} -> onDeleteKey(s)
      [] key = "d" -> setPlaybackRate(s, ClampRate(getPlaybackRate(s) + 1))
      [] key = "s" -> setPlaybackRate(s, ClampRate(getPlaybackRate(s) - 1))
      [] key = "r" ->
            IF isMeta THEN s
            ELSE setPlaybackRate(s, IF getPlaybackRate(s) = 20 THEN 10 ELSE 20)
      [] key = "\\" ->
            IF s.mode = "edit" /\ s.recordingStart # NoTime THEN cancelRecording(s) ELSE s
      [] key = "e" ->
            IF isMeta THEN s
            ELSE (IF s.mode = "watch" THEN setMode(s, "edit") ELSE s)
      [] key = "Escape" -> onEscapeKey(s)
      \* 'h' and 't' change the layout only; any other key matches no case
      [] OTHER -> s

\* the keys the model presses; "a" stands for a key with no case in the switch
Keys ==
    {"ArrowUp", "ArrowDown", "ArrowLeft", "ArrowRight", "z", "x", "[", "]", " ",
     "Backspace", "Delete", "h", "t", "\\", "e", "Escape", "a"}

\* the keys whose case tests metaKey || ctrlKey
MetaKeys == {"ArrowUp", "ArrowDown", "[", "]", "e", "t"}

\* the keys that set the playback rate
RateKeys == {"d", "s", "r"}

\* the keys a viewer uses
ViewerKeys == {"ArrowUp", "ArrowDown", "ArrowLeft", "ArrowRight", " ", "e", "Escape"}

(***************************************************************************)
(* Actions                                                                 *)
(***************************************************************************)
\* the highlights array loadVideoData builds from data.highlights (seconds)
FromDescription(parsed) ==
    [i \in 1..Len(parsed) |->
        [id |-> <<"desc", i>>,
         start_time |-> 10 * parsed[i].start_time,
         end_time |-> 10 * parsed[i].end_time,
         duration |-> 10 * parsed[i].end_time - 10 * parsed[i].start_time,
         source |-> "description"]]

\* a variant of InitialMode that opens every video in watch mode
InitialModeAlwaysWatch(list) == "watch"

\* mode = highlights.length > 0 ? 'watch' : 'edit'
InitialMode(list) == IF Len(list) > 0 THEN "watch" ELSE "edit"

\* loadVideoData, the Worker answering with the metadata of a video whose
\* description is `description`
\* the body of loadVideoData once the metadata has arrived
loadVideoData(s0, description) ==
    LET list == FromDescription(parseHighlightsFromDescription(description))
        s    == [s0 EXCEPT !.highlights = list,
                           !.highlightCounter = Len(list),
                           !.mode = InitialMode(list)]
    IN  setMode(s, s.mode)

LoadVideoData(description) ==
    /\ phase = "loading"
    /\ description = videoDescription
    /\ Commit(loadVideoData(Cur, description))
    /\ phase' = "loaded"
    /\ written' = Null
    /\ UNCHANGED <<ytDuration, codecIn, codecOut, serviceVars>>

\* loadVideoData, the Worker answering with an error or the fetch failing
LoadFailed ==
    /\ phase = "loading"
    /\ phase' = "error"
    /\ written' = Null
    /\ UNCHANGED <<highlights, selectedHighlightId, recordingStart, mode,
                   highlightCounter, isPlayingAll, playAllClipIndex, playAllClips,
                   ytPlayerReady, playerTime, playerState, playbackRate,
                   advanceTimers, lastSought, staleTimers, ytDuration, codecIn,
                   codecOut, serviceVars>>

\* the state of a page whose script has just run: the declarations of app.js
FreshPage ==
    [highlights |-> <<>>, selectedHighlightId |-> Null, recordingStart |-> NoTime,
     mode |-> "watch", highlightCounter |-> 0, isPlayingAll |-> FALSE,
     playAllClipIndex |-> 0, playAllClips |-> <<>>, ytPlayerReady |-> FALSE,
     playerTime |-> 0, playerState |-> "paused", playbackRate |-> 10,
     ytDuration |-> ytDuration, advanceTimers |-> {}, lastSought |-> -1,
     staleTimers |-> {}]

\* the user reloads the page: the script runs again from its declarations, for
\* the video id of the URL, and DOMContentLoaded calls loadVideoData again
Reload ==
    /\ phase \in {"loaded", "error"}
    /\ Commit(FreshPage)
    /\ phase' = "loading"
    /\ written' = Null
    /\ UNCHANGED <<ytDuration, codecIn, codecOut, serviceVars>>

\* onYTPlayerReady
OnYTPlayerReady ==
    /\ phase = "loaded"
    /\ ~ytPlayerReady
    /\ LET s == [Cur EXCEPT !.ytPlayerReady = TRUE] IN
       Commit(IF s.mode = "watch" /\ Len(s.highlights) > 0 THEN startPlayAll(s) ELSE s)
    /\ written' = Null
    /\ UNCHANGED <<phase, ytDuration, codecIn, codecOut, serviceVars>>

\* 100 ms of playback: the player's clock moves by dt while it plays and stops at
\* the end of the video
Playback(s, dt) ==
    IF s.playerState = "playing"
    THEN IF s.playerTime + dt >= s.ytDuration
         THEN [s EXCEPT !.playerTime = s.ytDuration, !.playerState = "paused"]
         ELSE [s EXCEPT !.playerTime = @ + dt]
    ELSE s

\* one period of the setInterval callback installed by onYTPlayerReady; a timeout
\* that is due runs before the interval's next period
Tick(dt) ==
    /\ ytPlayerReady
    /\ 0 \notin advanceTimers
    /\ LET a == Playback(Cur, dt)
           b == [a EXCEPT !.advanceTimers = {r - 1 : r \in @},
                          !.staleTimers = {r - 1 : r \in @}]
       IN  Commit(IF b.isPlayingAll THEN onPlayAllTimeUpdate(b) ELSE b)
    /\ written' = Null
    /\ UNCHANGED <<phase, ytDuration, codecIn, codecOut, serviceVars>>

\* a clip-advance timeout fires: 300 ms after it was set, which is with or after
\* the interval's third period
AdvanceTimeout(r) ==
    /\ r \in advanceTimers
    /\ r <= 1
    /\ \A q \in advanceTimers : r <= q
    /\ Commit(onAdvanceTimeout([Cur EXCEPT !.advanceTimers = @ \ {r},
                                           !.staleTimers = @ \ {r}]))
    /\ written' = Null
    /\ UNCHANGED <<phase, ytDuration, codecIn, codecOut, serviceVars>>

\* a keydown event; the bracket keys are pressed at the instants of MarkTimes
KeyDown(key, isMeta) ==
    /\ phase = "loaded"
    /\ (key \in {"[", "]"} /\ ~isMeta) => getCurrentTime(Cur) \in MarkTimes
    /\ LET s == keydown(Cur, key, isMeta) IN
       /\ WithinBounds(s)
       /\ Commit(s)
    /\ written' = Null
    /\ UNCHANGED <<phase, ytDuration, codecIn, codecOut, serviceVars>>

\* a click on a highlight of the list or on its timeline segment
ClickHighlight(id) ==
    /\ phase = "loaded"
    /\ \E i \in 1..Len(highlights) : highlights[i].id = id
    /\ Commit(selectHighlight(Cur, id))
    /\ written' = Null
    /\ UNCHANGED <<phase, ytDuration, codecIn, codecOut, serviceVars>>

\* a click on the delete button of a highlight, which edit mode renders
ClickDelete(id) ==
    /\ phase = "loaded"
    /\ mode = "edit"
    /\ \E i \in 1..Len(highlights) : highlights[i].id = id
    /\ Commit(deleteHighlight(Cur, id))
    /\ written' = Null
    /\ UNCHANGED <<phase, ytDuration, codecIn, codecOut, serviceVars>>

\* the Play All control, which startPlayAll hides and stopPlayAll shows
ClickPlayAll ==
    /\ phase = "loaded"
    /\ mode = "watch"
    /\ ~isPlayingAll
    /\ Commit(startPlayAll(Cur))
    /\ written' = Null
    /\ UNCHANGED <<phase, ytDuration, codecIn, codecOut, serviceVars>>

\* the Stop control
ClickStop ==
    /\ phase = "loaded"
    /\ isPlayingAll
    /\ Commit(stopPlayAll(Cur))
    /\ written' = Null
    /\ UNCHANGED <<phase, ytDuration, codecIn, codecOut, serviceVars>>

\* a click on the empty timeline at the position of time t
TimelineClick(t) ==
    /\ phase = "loaded"
    /\ Commit(setCurrentTime(Cur, t))
    /\ written' = Null
    /\ UNCHANGED <<phase, ytDuration, codecIn, codecOut, serviceVars>>

\* copyForDescription; clipboardOk is whether navigator.clipboard.writeText resolves
CopyForDescription(clipboardOk) ==
    /\ phase = "loaded"
    /\ written' = IF Len(highlights) = 0 \/ ~clipboardOk THEN Null
                  ELSE ExportText(highlights)
    /\ UNCHANGED <<appVars, ytDuration, codecIn, codecOut, serviceVars>>

(***************************************************************************)
(* The description codec on its own: the Worker parsing a description, and *)
(* a creator's export pasted into a description and parsed back.           *)
(***************************************************************************)
\* "0:01 - 0:02"
LineRange == <<"0", ":", "0", "1", " ", "-", " ", "0", ":", "0", "2">>

\* "1:05-1:10"
LineRangeLate == <<"1", ":", "0", "5", "-", "1", ":", "1", "0">>

\* "0:02 - 0:01"
LineReversed == <<"0", ":", "0", "2", " ", "-", " ", "0", ":", "0", "1">>

\* "note"
LineNote == <<"n", "o", "t", "e">>

\* "[Links]"
LineLinks == <<"[", "L", "i", "n", "k", "s", "]">>

\* " [Highlights] "
LinePadded == <<" ", "[", "H", "i", "g", "h", "l", "i", "g", "h", "t", "s", "]", " ">>

\* the lines the descriptions under test are made of
LinePool ==
    {HighlightsHeader, LinePadded, LineRange, LineRangeLate, LineReversed,
     LineNote, LineLinks, <<>>}

\* the most lines of a description under test
MaxLines == 3

\* the times (tenths of a second) the highlights under test begin and end at
CodecTimes == {0, 5, 10, 14, 20, 650, 36000}

CodecHighlights ==
    {h \in [start_time : CodecTimes, end_time : CodecTimes] : h.start_time < h.end_time}

\* highlight lists as the bracket keys build them: no two overlap
CodecLists ==
    {l \in UNION {[1..n -> CodecHighlights] : n \in 1..MaxHighlights} :
        \A i, j \in 1..Len(l) :
            i # j => (l[i].end_time <= l[j].start_time \/ l[j].end_time <= l[i].start_time)}

NoCodecInput == [op |-> "none", description |-> <<>>, list |-> <<>>]

NoCodecOutput == [done |-> FALSE, description |-> <<>>, pairs |-> <<>>]

CodecInputs ==
    {[op |-> "parse", description |-> Join(lines, "\n"), list |-> <<>>] :
        lines \in UNION {[1..n -> LinePool] : n \in 0..MaxLines}}
    \cup {[op |-> "roundtrip", description |-> <<>>, list |-> l] : l \in CodecLists}

\* the Worker's fetch handler: highlights = parseHighlightsFromDescription(description)
ParseDescription ==
    /\ codecIn.op = "parse"
    /\ ~codecOut.done
    /\ codecOut' = [done |-> TRUE, description |-> codecIn.description,
                    pairs |-> parseHighlightsFromDescription(codecIn.description)]
    /\ UNCHANGED <<appVars, ytDuration, written, codecIn, serviceVars>>

\* copyForDescription's text, made the video's description and parsed by the Worker
ExportAndParse ==
    /\ codecIn.op = "roundtrip"
    /\ ~codecOut.done
    /\ LET text == ExportText(codecIn.list) IN
       codecOut' = [done |-> TRUE, description |-> text,
                    pairs |-> parseHighlightsFromDescription(text)]
    /\ UNCHANGED <<appVars, ytDuration, written, codecIn, serviceVars>>

\* the application's variables before loadVideoData has run
AppInit ==
    /\ phase = "loading"
    /\ highlights = <<>>
    /\ selectedHighlightId = Null
    /\ recordingStart = NoTime
    /\ mode = "watch"
    /\ highlightCounter = 0
    /\ isPlayingAll = FALSE
    /\ playAllClipIndex = 0
    /\ playAllClips = <<>>
    /\ ytPlayerReady = FALSE
    /\ playerTime = 0
    /\ playerState = "paused"
    /\ playbackRate = 10
    /\ ytDuration = VideoLen
    /\ advanceTimers = {}
    /\ lastSought = -1
    /\ staleTimers = {}
    /\ written = Null

(***************************************************************************)
(* worker.js: the fetch handler                                            *)
(***************************************************************************)
\* const CACHE_TTL = 3600 (seconds)
CACHE_TTL == 3600

\* the characters of [a-zA-Z0-9_-]
IdChars ==
    {"a", "b", "c", "d", "e", "f", "g", "h", "i", "j", "k", "l", "m", "n", "o", "p",
     "q", "r", "s", "t", "u", "v", "w", "x", "y", "z",
     "A", "B", "C", "D", "E", "F", "G", "H", "I", "J", "K", "L", "M", "N", "O", "P",
     "Q", "R", "S", "T", "U", "V", "W", "X", "Y", "Z",
     "0", "1", "2", "3", "4", "5", "6", "7", "8", "9", "_", "-"}

\* /^[a-zA-Z0-9_-]{11}$/.test(videoId)
IsVideoId(videoId) ==
    Len(videoId) = 11 /\ \A i \in 1..Len(videoId) : videoId[i] \in IdChars

\* "dQw4w9WgXcQ"
VideoA == <<"d", "Q", "w", "4", "w", "9", "W", "g", "X", "c", "Q">>

\* "a_b-c123XYZ"
VideoB == <<"a", "_", "b", "-", "c", "1", "2", "3", "X", "Y", "Z">>

\* the ids of the videos of the model
VideoIds == {VideoA, VideoB}

\* url.searchParams.get("v"): null when the parameter is absent
NoParam == [present |-> FALSE, value |-> <<>>]

Param(value) == [present |-> TRUE, value |-> value]

\* the v parameters of the requests of the model: absent, empty, too short, too
\* long, of 11 characters one of which is '!', and the ids of the videos
Params ==
    {NoParam, Param(<<>>), Param(SubSeq(VideoA, 1, 10)), Param(VideoA \o <<"0">>),
     Param(SubSeq(VideoA, 1, 10) \o <<"!">>), Param(VideoA), Param(VideoB)}

ApiPath == "/api/yt-metadata"

Requests ==
    [method : {"GET", "POST", "OPTIONS"}, pathname : {ApiPath, "/"}, v : Params]

NoRequest == [method |-> "", pathname |-> "", v |-> NoParam]

NoResult ==
    [videoId |-> <<>>, title |-> "", description |-> <<>>, highlights |-> <<>>,
     channelTitle |-> "", publishedAt |-> ""]

\* a Response: its status, whether it carries Access-Control-Allow-Origin: *,
\* and its body (a text, or the JSON of an error or of a result)
NoResponse ==
    [status |-> 0, cors |-> FALSE, text |-> "", error |-> "", result |-> NoResult]

\* jsonResponse(data, status)
jsonResponse(error, result, status) ==
    [status |-> status, cors |-> TRUE, text |-> "", error |-> error, result |-> result]

\* handleCORS()
handleCORS ==
    [status |-> 200, cors |-> TRUE, text |-> "", error |-> "", result |-> NoResult]

\* new Response("Not Found", { status: 404 })
NotFound ==
    [status |-> 404, cors |-> FALSE, text |-> "Not Found", error |-> "",
     result |-> NoResult]

\* an entry of the cache: the value stored, its expirationTtl and its age, in
\* seconds
NoEntry == [present |-> FALSE, value |-> NoResult, ttl |-> 0, age |-> 0]

\* the snippet the YouTube API returns for a video
Snippet(video) ==
    [title |-> "title", description |-> video.description,
     channelTitle |-> "channel", publishedAt |-> "published"]

\* what the handler returns and leaves behind
Handled(resp, cache, log) == [response |-> resp, kv |-> cache, log |-> log]

\* the try block without the early return of the cached entry
LookupRefreshing(videoId, configured, cache, videos, apiOutcome) ==
    LET read == IF configured THEN <<[op |-> "get", key |-> videoId]>> ELSE <<>>
        call == read \o <<[op |-> "api", key |-> videoId]>>
    IN  IF FALSE
        THEN Handled(jsonResponse("", cache[videoId].value, 200), cache, read)
        ELSE IF apiOutcome = "throws"
        THEN Handled(jsonResponse("Internal error", NoResult, 500), cache, call)
        ELSE IF apiOutcome = "notOk"
        THEN Handled(jsonResponse("YouTube API error", NoResult, 502), cache, call)
        ELSE IF ~videos[videoId].exists
        THEN Handled(jsonResponse("Video not found", NoResult, 404), cache, call)
        ELSE LET snippet == Snippet(videos[videoId])
                 result  == [videoId |-> videoId, title |-> snippet.title,
                             description |-> snippet.description,
                             highlights |->
                                 parseHighlightsFromDescription(snippet.description),
                             channelTitle |-> snippet.channelTitle,
                             publishedAt |-> snippet.publishedAt]
             IN  IF configured
                 THEN Handled(jsonResponse("", result, 200),
                              [cache EXCEPT ![videoId] =
                                  [present |-> TRUE, value |-> result, ttl |-> CACHE_TTL,
                                   age |-> 0]],
                              call \o <<[op |-> "put", key |-> videoId]>>)
                 ELSE Handled(jsonResponse("", result, 200), cache, call)

\* the try block with a handler that stores what it answers, the error of a
\* missing video included
LookupCachingFailures(videoId, configured, cache, videos, apiOutcome) ==
    LET read == IF configured THEN <<[op |-> "get", key |-> videoId]>> ELSE <<>>
        call == read \o <<[op |-> "api", key |-> videoId]>>
    IN  IF configured /\ cache[videoId].present
        THEN Handled(jsonResponse("", cache[videoId].value, 200), cache, read)
        ELSE IF apiOutcome = "throws"
        THEN Handled(jsonResponse("Internal error", NoResult, 500), cache, call)
        ELSE IF apiOutcome = "notOk"
        THEN Handled(jsonResponse("YouTube API error", NoResult, 502), cache, call)
        ELSE IF ~videos[videoId].exists
        THEN Handled(jsonResponse("Video not found", NoResult, 404),
                     IF configured
                     THEN [cache EXCEPT ![videoId] =
                              [present |-> TRUE, value |-> NoResult, ttl |-> CACHE_TTL,
                               age |-> 0]]
                     ELSE cache,
                     call)
        ELSE LET snippet == Snippet(videos[videoId])
                 result  == [videoId |-> videoId, title |-> snippet.title,
                             description |-> snippet.description,
                             highlights |->
                                 parseHighlightsFromDescription(snippet.description),
                             channelTitle |-> snippet.channelTitle,
                             publishedAt |-> snippet.publishedAt]
             IN  IF configured
                 THEN Handled(jsonResponse("", result, 200),
                              [cache EXCEPT ![videoId] =
                                  [present |-> TRUE, value |-> result, ttl |-> CACHE_TTL,
                                   age |-> 0]],
                              call \o <<[op |-> "put", key |-> videoId]>>)
                 ELSE Handled(jsonResponse("", result, 200), cache, call)

\* the try block of fetch, for a valid videoId; apiOutcome is how the call of the
\* YouTube API ends: "ok", "notOk" (ytResponse.ok false) or "throws"
Lookup(videoId, configured, cache, videos, apiOutcome) ==
    LET read == IF configured THEN <<[op |-> "get", key |-> videoId]>> ELSE <<>>
        call == read \o <<[op |-> "api", key |-> videoId]>>
    IN  IF configured /\ cache[videoId].present
        THEN Handled(jsonResponse("", cache[videoId].value, 200), cache, read)
        ELSE IF apiOutcome = "throws"
        THEN Handled(jsonResponse("Internal error", NoResult, 500), cache, call)
        ELSE IF apiOutcome = "notOk"
        THEN Handled(jsonResponse("YouTube API error", NoResult, 502), cache, call)
        ELSE IF ~videos[videoId].exists
        THEN Handled(jsonResponse("Video not found", NoResult, 404), cache, call)
        ELSE LET snippet == Snippet(videos[videoId])
                 result  == [videoId |-> videoId, title |-> snippet.title,
                             description |-> snippet.description,
                             highlights |->
                                 parseHighlightsFromDescription(snippet.description),
                             channelTitle |-> snippet.channelTitle,
                             publishedAt |-> snippet.publishedAt]
             IN  IF configured
                 THEN Handled(jsonResponse("", result, 200),
                              [cache EXCEPT ![videoId] =
                                  [present |-> TRUE, value |-> result, ttl |-> CACHE_TTL,
                                   age |-> 0]],
                              call \o <<[op |-> "put", key |-> videoId]>>)
                 ELSE Handled(jsonResponse("", result, 200), cache, call)

\* fetch without the test of the path
WorkerFetchAnyPath(req, configured, cache, videos, apiOutcome) ==
    IF req.method = "OPTIONS" THEN Handled(handleCORS, cache, <<>>)
    ELSE IF ~req.v.present \/ req.v.value = <<>> \/ ~IsVideoId(req.v.value)
    THEN Handled(jsonResponse("Invalid video ID", NoResult, 400), cache, <<>>)
    ELSE Lookup(req.v.value, configured, cache, videos, apiOutcome)

\* fetch(request, env)
WorkerFetch(req, configured, cache, videos, apiOutcome) ==
    IF req.method = "OPTIONS" THEN Handled(handleCORS, cache, <<>>)
    ELSE IF req.pathname # ApiPath THEN Handled(NotFound, cache, <<>>)
    ELSE IF ~req.v.present \/ req.v.value = <<>> \/ ~IsVideoId(req.v.value)
    THEN Handled(jsonResponse("Invalid video ID", NoResult, 400), cache, <<>>)
    ELSE Lookup(req.v.value, configured, cache, videos, apiOutcome)

\* the descriptions the videos of the model are given
VideoDescriptions == {<<>>, DescOne, DescTwo}

\* a request reaches the Worker
HandleRequest(req, apiOutcome) ==
    /\ LET done == WorkerFetch(req, kvConfigured, kv, ytVideos, apiOutcome) IN
       /\ response' = done.response
       /\ kv' = done.kv
       /\ workerLog' = done.log
    /\ request' = req
    /\ UNCHANGED <<appVars, ytDuration, written, codecIn, codecOut, ytVideos, kvConfigured,
                   videoDescription, pipelineVars>>

\* the creator edits the description of a video on YouTube
EditDescription(videoId, description) ==
    /\ ytVideos[videoId].exists
    /\ ytVideos[videoId].description # description
    /\ ytVideos' = [ytVideos EXCEPT ![videoId].description = description]
    /\ UNCHANGED <<appVars, ytDuration, written, codecIn, codecOut, kvConfigured, kv,
                   request, response, workerLog,
                   videoDescription, pipelineVars>>

\* half of CACHE_TTL goes by; KV drops the entries whose expirationTtl has passed
Elapse ==
    /\ \E k \in VideoIds : kv[k].present
    /\ kv' = [k \in VideoIds |->
                IF kv[k].present /\ kv[k].age + (CACHE_TTL \div 2) < kv[k].ttl
                THEN [kv[k] EXCEPT !.age = @ + (CACHE_TTL \div 2)]
                ELSE NoEntry]
    /\ UNCHANGED <<appVars, ytDuration, written, codecIn, codecOut, ytVideos,
                   kvConfigured, request, response, workerLog,
                   videoDescription, pipelineVars>>

(***************************************************************************)
(* app.js: the page is opened for the v parameter of its URL and asks the  *)
(* Worker for the metadata of the video                                    *)
(***************************************************************************)
\* the state of app.js but for what the page shows
pageVars == <<highlights, selectedHighlightId, recordingStart, mode, highlightCounter,
              isPlayingAll, playAllClipIndex, playAllClips, ytPlayerReady, playerTime,
              playerState, playbackRate, advanceTimers, lastSought, staleTimers>>

\* a variant of the test of the DOMContentLoaded handler that lets every v through
InvalidVideoIdNever(v) == FALSE

\* !youtubeVideoId || !/^[a-zA-Z0-9_-]{11}$/.test(youtubeVideoId)
InvalidVideoId(v) == ~v.present \/ v.value = <<>> \/ ~IsVideoId(v.value)

\* the DOMContentLoaded handler and loadVideoData: v is the parameter of the URL,
\* apiOutcome how the Worker's call of the YouTube API ends, fetchOk whether the
\* page's fetch reaches the Worker and brings its answer back.  data.highlights
\* is the Worker's parse of data.description.
DOMContentLoaded(v, apiOutcome, fetchOk) ==
    /\ phase = "loading"
    /\ IF InvalidVideoId(v)
       THEN /\ phase' = "error"
            /\ UNCHANGED <<pageVars, request, response, kv, workerLog>>
       ELSE LET req  == [method |-> "GET", pathname |-> ApiPath, v |-> v]
                done == WorkerFetch(req, kvConfigured, kv, ytVideos, apiOutcome)
            IN  IF ~fetchOk
                THEN /\ phase' = "error"
                     /\ UNCHANGED <<pageVars, request, response, kv, workerLog>>
                ELSE /\ request' = req
                     /\ response' = done.response
                     /\ kv' = done.kv
                     /\ workerLog' = done.log
                     /\ IF done.response.error # ""
                        THEN /\ phase' = "error"
                             /\ UNCHANGED pageVars
                        ELSE /\ phase' = "loaded"
                             /\ Commit(loadVideoData(Cur, done.response.result.description))
    /\ written' = Null
    /\ UNCHANGED <<ytDuration, codecIn, codecOut, ytVideos, kvConfigured,
                   videoDescription, pipelineVars>>

(***************************************************************************)
(* The analysis pipeline: RallyDetector.  Times are in tenths of a second, *)
(* intensities and confidences in tenths of the unit.                      *)
(***************************************************************************)
\* the most hits of a track
MaxHits == 6

\* the length of the analysed media: the latest hit of the tracks of the model
\* is 0.5 s before its end
MediaDuration == 5 + (MaxHits - 1) * 50 + 5

\* the gaps between successive hits: within a rally, closing a candidate but
\* short of min_rally_gap, and separating two rallies
Gaps == {5, 13, 50}

\* the hit times that start at t0 and go on by the given gaps
RECURSIVE TimesFrom(_, _)
TimesFrom(t0, gaps) ==
    IF gaps = <<>> THEN <<t0>>
    ELSE <<t0>> \o TimesFrom(t0 + Head(gaps), Tail(gaps))

\* the tracks of the model: no hit, or up to MaxHits hits of one confidence
HitLists ==
    {<<>>} \cup
    {[i \in 1..Len(TimesFrom(t0, gaps)) |->
            [time |-> TimesFrom(t0, gaps)[i], confidence |-> c]] :
        t0 \in {0, 5}, c \in {8},
        gaps \in UNION {[1..n -> Gaps] : n \in 0..(MaxHits - 1)}}

\* a curve of MediaDuration \div 10 samples
FlatCurve(level) == [i \in 1..(MediaDuration \div 10) |-> level]

RisingCurve == [i \in 1..(MediaDuration \div 10) |-> Min(10, i \div 2)]

CurvePairs ==
    {[crowd |-> FlatCurve(0), motion |-> FlatCurve(5)],
     [crowd |-> RisingCurve, motion |-> FlatCurve(5)]}

\* the parameters of the RallyDetector: the declared defaults, and the same with
\* rallies of two hits
DefaultParams ==
    [min_hits_per_rally |-> 4, max_hit_interval |-> 12, min_rally_gap |-> 40,
     context_before |-> 10, context_after |-> 15]

ParamSets == {DefaultParams, [DefaultParams EXCEPT !.min_hits_per_rally = 2]}

\* scan hits in time order: a candidate is extended while the gap to the next
\* hit is at most max_hit_interval and closed otherwise, or at the end
RECURSIVE Candidates(_, _, _)
Candidates(hs, open, p) ==
    IF hs = <<>> THEN (IF open = <<>> THEN <<>> ELSE <<open>>)
    ELSE IF open = <<>> THEN Candidates(Tail(hs), <<Head(hs)>>, p)
    ELSE IF Head(hs).time - open[Len(open)].time <= p.max_hit_interval
    THEN Candidates(Tail(hs), Append(open, Head(hs)), p)
    ELSE <<open>> \o Candidates(Tail(hs), <<Head(hs)>>, p)

\* discard any candidate whose hit_count < min_hits_per_rally
Surviving(cands, p) ==
    SelectSeq(cands, LAMBDA c : Len(c) >= p.min_hits_per_rally)

\* merge adjacent surviving candidates whose boundary gap < min_rally_gap
RECURSIVE MergeClose(_, _)
MergeClose(cands, p) ==
    IF Len(cands) <= 1 THEN cands
    ELSE IF cands[2][1].time - cands[1][Len(cands[1])].time < p.min_rally_gap
    THEN MergeClose(<<cands[1] \o cands[2]>> \o SubSeq(cands, 3, Len(cands)), p)
    ELSE <<cands[1]>> \o MergeClose(Tail(cands), p)

RECURSIVE SumSamples(_, _, _)
SumSamples(curve, a, b) ==
    IF a > b THEN 0 ELSE curve[a] + SumSamples(curve, a + 1, b)

\* the mean of a curve over the span from time a to time b
MeanOver(curve, a, b) ==
    SumSamples(curve, a \div 10 + 1, b \div 10 + 1) \div (b \div 10 - a \div 10 + 1)

RECURSIVE SumConfidence(_)
SumConfidence(hs) ==
    IF hs = <<>> THEN 0 ELSE Head(hs).confidence + SumConfidence(Tail(hs))

\* the Rally of a final candidate: boundaries expanded by the contexts and
\* clamped to the media, intensities the means over the unexpanded hit span,
\* confidence the mean hit confidence
MakeRally(id, hs, cv, p) ==
    LET first == hs[1].time
        last  == hs[Len(hs)].time
        start == Max(0, first - p.context_before)
        end   == Min(MediaDuration, last + p.context_after)
    IN  [id |-> id, start_time |-> start, end_time |-> end, duration |-> end - start,
         hit_count |-> Len(hs),
         crowd_intensity |-> MeanOver(cv.crowd, first, last),
         motion_intensity |-> MeanOver(cv.motion, first, last),
         confidence |-> SumConfidence(hs) \div Len(hs)]

\* a variant of detect that returns the rallies latest first
detectLatestFirst(hs, cv, p) ==
    LET final == MergeClose(Surviving(Candidates(hs, <<>>, p), p), p) IN
    [i \in 1..Len(final) |-> MakeRally(<<"rally", i>>, final[Len(final) + 1 - i], cv, p)]

\* detect(hits, crowd_curve, motion_curve, params): ids are assigned in the order
\* of the start times
detect(hs, cv, p) ==
    LET final == MergeClose(Surviving(Candidates(hs, <<>>, p), p), p) IN
    [i \in 1..Len(final) |-> MakeRally(<<"rally", i>>, final[i], cv, p)]

(***************************************************************************)
(* The analysis pipeline: HighlightScorer.  Weights are in thousandths.    *)
(***************************************************************************)
Features == {"duration", "hit_count", "crowd_intensity", "motion_intensity", "confidence"}

\* {duration: 3.0, hit_count: 2.5, crowd_intensity: 1.5, motion_intensity: 1.0,
\*  confidence: 0.5}
DefaultWeights ==
    [duration |-> 3000, hit_count |-> 2500, crowd_intensity |-> 1500,
     motion_intensity |-> 1000, confidence |-> 500]

\* a weight vector persisted by an earlier session, crowd_intensity at 0.05
PersistedWeights == [DefaultWeights EXCEPT !.crowd_intensity = 50]

WeightVectors == {DefaultWeights, PersistedWeights}

\* {context_before=1.0s, context_after=1.5s, transition_duration=0.5s,
\*  add_transitions=true, max_duration=300s}
DefaultConfig ==
    [context_before |-> 10, context_after |-> 15, transition_duration |-> 5,
     add_transitions |-> TRUE, max_duration |-> 3000]

\* the budgets of the model: none, room for one and for two short rallies, the
\* default
Budgets == {0, 100, 120, 3000}

Configs == {[DefaultConfig EXCEPT !.max_duration = m] : m \in Budgets}

\* min-max scaling of a raw feature over the batch, in tenths
Scaled(x, values) ==
    LET lo == CHOOSE v \in values : \A u \in values : v <= u
        hi == CHOOSE v \in values : \A u \in values : v >= u
    IN  IF hi = lo THEN 0 ELSE ((x - lo) * 10) \div (hi - lo)

\* the component_scores of a rally of the batch
ComponentScores(r, batch) ==
    [f \in Features |-> Scaled(r[f], {batch[i][f] : i \in 1..Len(batch)})]

\* score = sum over the features of weight[f] * component_scores[f]
WeightedScore(w, c) ==
    w.duration * c.duration + w.hit_count * c.hit_count
        + w.crowd_intensity * c.crowd_intensity
        + w.motion_intensity * c.motion_intensity + w.confidence * c.confidence

\* descending by score, ties broken by earlier start_time
Outranks(a, b) ==
    \/ a.score > b.score
    \/ a.score = b.score /\ a.rally.start_time < b.rally.start_time

RECURSIVE RankInsert(_, _)
RankInsert(ranked, x) ==
    IF ranked = <<>> THEN <<x>>
    ELSE IF Outranks(x, ranked[Len(ranked)])
    THEN Append(RankInsert(SubSeq(ranked, 1, Len(ranked) - 1), x), ranked[Len(ranked)])
    ELSE Append(ranked, x)

RECURSIVE RankSort(_)
RankSort(list) ==
    IF list = <<>> THEN <<>>
    ELSE RankInsert(RankSort(SubSeq(list, 1, Len(list) - 1)), list[Len(list)])

\* a variant of ClipCost that leaves the contexts out
ClipCostWithoutContext(r, cfg) == r.duration

\* what a rally takes of the budget: duration + context_before + context_after
ClipCost(r, cfg) == r.duration + cfg.context_before + cfg.context_after

\* the walk in rank order: the number of rallies marked before the running sum
\* would pass max_duration
RECURSIVE SelectedCount(_, _, _, _)
SelectedCount(ranked, i, running, cfg) ==
    IF i > Len(ranked) THEN Len(ranked)
    ELSE IF running + ClipCost(ranked[i].rally, cfg) <= cfg.max_duration
    THEN SelectedCount(ranked, i + 1, running + ClipCost(ranked[i].rally, cfg), cfg)
    ELSE i - 1

\* score(rallies, weights, config)
score(batch, w, cfg) ==
    LET scored == [i \in 1..Len(batch) |->
                    [rally |-> batch[i],
                     component_scores |-> ComponentScores(batch[i], batch),
                     score |-> WeightedScore(w, ComponentScores(batch[i], batch))]]
        ranked == RankSort(scored)
        k      == SelectedCount(ranked, 1, 0, cfg)
    IN  [i \in 1..Len(ranked) |->
            [rally |-> ranked[i].rally, score |-> ranked[i].score, rank |-> i,
             component_scores |-> ranked[i].component_scores,
             is_selected |-> (i <= k), user_decision |-> "none"]]

(***************************************************************************)
(* The analysis pipeline: PreferenceLearner                                *)
(***************************************************************************)
\* learning_rate = 0.1
LearningRate == 100

\* the most feedback records of a session
MaxFeedback == 5

\* "keep" is a positive label and "reject" a negative one
LabelSign(decision) == IF decision = "keep" THEN 1 ELSE -1

\* weight[f] += learning_rate * label_sign * component_scores[f]
Stepped(w, fb) ==
    [f \in Features |->
        w[f] + LabelSign(fb.decision) * ((LearningRate * fb.component_scores[f]) \div 10)]

\* a variant of Clamped that lets the weights through
ClampedNot(w) == w

\* clamp each weight to >= 0
Clamped(w) == [f \in Features |-> Max(0, w[f])]

SumWeights(w) ==
    w.duration + w.hit_count + w.crowd_intensity + w.motion_intensity + w.confidence

\* renormalize the vector so the weight sum is held constant
Renormalized(w, total) ==
    IF SumWeights(w) = 0 THEN w
    ELSE [f \in Features |-> (w[f] * total) \div SumWeights(w)]

\* update(weights, feedback_record)
update(w, fb) == Renormalized(Clamped(Stepped(w, fb)), SumWeights(w))

\* the component scores of the rallies the feedback is about: every component
\* high; crowd_intensity at 0.8 under four components at 1.0; crowd_intensity
\* alone
AllHigh == [f \in Features |-> 10]

CrowdHigh == [AllHigh EXCEPT !.crowd_intensity = 8]

CrowdOnly == [f \in Features |-> IF f = "crowd_intensity" THEN 10 ELSE 0]

FeedbackRecords ==
    [decision : {"keep", "reject"}, component_scores : {AllHigh, CrowdHigh, CrowdOnly}]

(***************************************************************************)
(* The analysis pipeline: its operations                                   *)
(***************************************************************************)
nonPipelineVars ==
    <<appVars, ytDuration, written, codecIn, codecOut, workerVars, videoDescription>>

\* RallyDetector.detect on the analysed track
Detect ==
    /\ rallies' = detect(hits, curves, params)
    /\ UNCHANGED <<nonPipelineVars, hits, curves, params, config, weights,
                   scoredRallies, feedbackCount, jobs, lastError>>

\* HighlightScorer.score on the current rallies
Score ==
    /\ scoredRallies' = score(rallies, weights, config)
    /\ UNCHANGED <<nonPipelineVars, hits, curves, params, rallies, config, weights,
                   feedbackCount, jobs, lastError>>

\* submit_feedback: the PreferenceLearner update, then rescoring
SubmitFeedback(fb) ==
    /\ feedbackCount < MaxFeedback
    /\ weights' = update(weights, fb)
    /\ scoredRallies' = score(rallies, weights', config)
    /\ feedbackCount' = feedbackCount + 1
    /\ UNCHANGED <<nonPipelineVars, hits, curves, params, rallies, config, jobs,
                   lastError>>

\* a track of three rallies of two hits
SampleTrack ==
    [i \in 1..6 |-> [time |-> TimesFrom(0, <<5, 50, 5, 50, 5>>)[i], confidence |-> 8]]

\* the Rally lists detection yields on the tracks of the model
RallyLists == {detect(h, cv, p) : h \in HitLists, cv \in CurvePairs, p \in ParamSets}

\* the pipeline before its first analysis, for the specifications it has no part
\* in
PipelineIdle ==
    /\ hits = <<>>
    /\ curves = [crowd |-> FlatCurve(0), motion |-> FlatCurve(5)]
    /\ params = DefaultParams
    /\ rallies = <<>>
    /\ config = DefaultConfig
    /\ weights = DefaultWeights
    /\ scoredRallies = <<>>
    /\ feedbackCount = 0
    /\ jobs = <<>>
    /\ lastError = "none"

\* the Worker before its first request, for the specifications it has no part in
WorkerIdle ==
    /\ ytVideos = [k \in VideoIds |-> [exists |-> FALSE, description |-> <<>>]]
    /\ kvConfigured = FALSE
    /\ kv = [k \in VideoIds |-> NoEntry]
    /\ request = NoRequest
    /\ response = NoResponse
    /\ workerLog = <<>>

\* the Worker deployed, with or without the cache, before its first request
InitWorker ==
    /\ AppInit
    /\ codecIn = NoCodecInput
    /\ codecOut = NoCodecOutput
    /\ ytVideos \in [VideoIds -> [exists : BOOLEAN, description : {<<>>}]]
    /\ kvConfigured \in BOOLEAN
    /\ kv = [k \in VideoIds |-> NoEntry]
    /\ request = NoRequest
    /\ response = NoResponse
    /\ workerLog = <<>>
    /\ videoDescription = DescPlain
    /\ PipelineIdle

Init ==
    /\ AppInit
    /\ codecIn = NoCodecInput
    /\ codecOut = NoCodecOutput
    /\ WorkerIdle
    /\ videoDescription \in Descriptions
    /\ PipelineIdle

\* the codec under test is given one of its inputs
InitCodec ==
    /\ AppInit
    /\ codecIn \in CodecInputs
    /\ codecOut = NoCodecOutput
    /\ WorkerIdle
    /\ videoDescription = DescPlain
    /\ PipelineIdle

\* the application, the codec and the Worker at rest
OthersIdle ==
    /\ AppInit
    /\ codecIn = NoCodecInput
    /\ codecOut = NoCodecOutput
    /\ WorkerIdle
    /\ videoDescription = DescPlain

\* the RallyDetector is given a track and its parameters
InitDetector ==
    /\ OthersIdle
    /\ hits \in HitLists
    /\ curves \in CurvePairs
    /\ params \in ParamSets
    /\ rallies = <<>>
    /\ config = DefaultConfig
    /\ weights = DefaultWeights
    /\ scoredRallies = <<>>
    /\ feedbackCount = 0
    /\ jobs = <<>>
    /\ lastError = "none"

\* the HighlightScorer is given a Rally list, a weight vector and a config
InitScorer ==
    /\ OthersIdle
    /\ hits = <<>>
    /\ curves = [crowd |-> FlatCurve(0), motion |-> FlatCurve(5)]
    /\ params = DefaultParams
    /\ rallies \in RallyLists
    /\ config \in Configs
    /\ weights \in WeightVectors
    /\ scoredRallies = <<>>
    /\ feedbackCount = 0
    /\ jobs = <<>>
    /\ lastError = "none"

\* a session starts from the default or the persisted weight vector, the sample
\* track analysed and scored
InitLearner ==
    /\ OthersIdle
    /\ hits = SampleTrack
    /\ curves = [crowd |-> RisingCurve, motion |-> FlatCurve(5)]
    /\ params = [DefaultParams EXCEPT !.min_hits_per_rally = 2]
    /\ rallies = detect(hits, curves, params)
    /\ config = DefaultConfig
    /\ weights \in WeightVectors
    /\ scoredRallies = score(rallies, weights, config)
    /\ feedbackCount = 0
    /\ jobs = <<>>
    /\ lastError = "none"

(***************************************************************************)
(* The analysis pipeline: its jobs                                         *)
(***************************************************************************)
Sources == {"match1", "match2"}

JobKinds == {"analysis", "compilation"}

\* the track media acquisition supplies for a source
TrackOf(source) ==
    IF source = "match1" THEN SampleTrack
    ELSE [i \in 1..2 |-> [time |-> TimesFrom(5, <<5>>)[i], confidence |-> 8]]

\* a job of the kind is running for the source
InFlight(source, kind) ==
    \E i \in 1..Len(jobs) : jobs[i] = [source |-> source, kind |-> kind]

\* a variant of Request that starts the job whatever is running
RequestUnchecked(source, kind) ==
    /\ jobs' = Append(jobs, [source |-> source, kind |-> kind])
    /\ lastError' = "none"
    /\ UNCHANGED <<nonPipelineVars, hits, curves, params, rallies, config, weights,
                   scoredRallies, feedbackCount>>

\* analyze(source) and compile(selected_ids), kind telling which: the job is
\* started on the worker pool, unless one of the kind is running for the source
Request(source, kind) ==
    /\ IF InFlight(source, kind)
       THEN /\ lastError' = "ConcurrencyError"
            /\ jobs' = jobs
       ELSE /\ lastError' = "none"
            /\ jobs' = Append(jobs, [source |-> source, kind |-> kind])
    /\ UNCHANGED <<nonPipelineVars, hits, curves, params, rallies, config, weights,
                   scoredRallies, feedbackCount>>

\* the jobs in flight but the first of the kind for the source
Finished(source, kind) ==
    LET i == CHOOSE k \in 1..Len(jobs) :
                /\ jobs[k] = [source |-> source, kind |-> kind]
                /\ \A m \in 1..(k - 1) : jobs[m] # jobs[k]
    IN  SubSeq(jobs, 1, i - 1) \o SubSeq(jobs, i + 1, Len(jobs))

\* an analysis job completes: the Rally list and the scored list are replaced
AnalysisDone(source) ==
    /\ InFlight(source, "analysis")
    /\ hits' = TrackOf(source)
    /\ rallies' = detect(hits', curves, params)
    /\ scoredRallies' = score(rallies', weights, config)
    /\ jobs' = Finished(source, "analysis")
    /\ UNCHANGED <<nonPipelineVars, curves, params, config, weights, feedbackCount,
                   lastError>>

\* a compilation job ends, the external tool exiting with zero or not
CompilationDone(source, exitOk) ==
    /\ InFlight(source, "compilation")
    /\ jobs' = Finished(source, "compilation")
    /\ lastError' = IF exitOk THEN "none" ELSE "CompilationError"
    /\ UNCHANGED <<nonPipelineVars, hits, curves, params, rallies, config, weights,
                   scoredRallies, feedbackCount>>

\* the pipeline at startup, detection set for rallies of two hits
InitJobs ==
    /\ OthersIdle
    /\ hits = <<>>
    /\ curves = [crowd |-> RisingCurve, motion |-> FlatCurve(5)]
    /\ params = [DefaultParams EXCEPT !.min_hits_per_rally = 2]
    /\ rallies = <<>>
    /\ config = DefaultConfig
    /\ weights \in WeightVectors
    /\ scoredRallies = <<>>
    /\ feedbackCount = 0
    /\ jobs = <<>>
    /\ lastError = "none"

JobsNext ==
    \/ \E source \in Sources, kind \in JobKinds : Request(source, kind)
    \/ \E source \in Sources : AnalysisDone(source)
    \/ \E source \in Sources, exitOk \in BOOLEAN : CompilationDone(source, exitOk)

(***************************************************************************)
(* Specifications.  Spec is the whole application.  The others are         *)
(* sessions of it, each with the events of one use of the page, since the  *)
(* product of all of them is beyond exhaustive search:                     *)
(*   SpecEdit      a creator's session: every key, the clicks of the list, *)
(*                 seeking on the timeline, the export; the clock stands   *)
(*                 still, the player being positioned by seeking;          *)
(*   SpecPlayback  a viewer's session: the clock, the clip-advance         *)
(*                 timeouts, Play All and Stop, seeking, the keys of watch *)
(*                 mode and the mode switches;                             *)
(*   SpecAuto      a viewer who only watches: the clock and the timeouts,  *)
(*                 no user event;                                          *)
(*   SpecCodec     the description codec applied to one input;             *)
(*   SpecReload    the editing, the page reloaded at any moment;           *)
(*   SpecWorker    the Worker serving requests, the descriptions edited on *)
(*                 YouTube and the cache entries expiring meanwhile;       *)
(*   SpecDetector  the RallyDetector applied to one track;                 *)
(*   SpecScorer    the HighlightScorer applied to one Rally list;          *)
(*   SpecLearner   a session of feedback from a starting weight vector;    *)
(*   SpecJobs      analyze and compile requests and their jobs.            *)
(***************************************************************************)
LoadNext ==
    \/ \E d \in Descriptions : LoadVideoData(d)
    \/ LoadFailed
    \/ OnYTPlayerReady

EditNext ==
    \/ \E key \in Keys : KeyDown(key, FALSE)
    \/ \E key \in MetaKeys : KeyDown(key, TRUE)
    \/ \E i \in 1..MaxHighlights : i <= Len(highlights) /\ ClickHighlight(highlights[i].id)
    \/ \E i \in 1..MaxHighlights : i <= Len(highlights) /\ ClickDelete(highlights[i].id)
    \/ \E t \in MarkTimes : TimelineClick(t)
    \/ \E ok \in BOOLEAN : CopyForDescription(ok)

ClockNext ==
    \/ \E dt \in {0, 1} : Tick(dt)
    \/ \E r \in 0..ClipAdvanceDelay : AdvanceTimeout(r)

PlaybackNext ==
    \/ ClickPlayAll
    \/ ClickStop
    \/ \E key \in ViewerKeys : KeyDown(key, FALSE)
    \/ \E i \in 1..MaxHighlights : i <= Len(highlights) /\ ClickHighlight(highlights[i].id)
    \/ \E t \in MarkTimes : TimelineClick(t)

AutoNext ==
    \/ \E dt \in {0, 1} : Tick(dt)
    \/ \E r \in 0..ClipAdvanceDelay : AdvanceTimeout(r)

CodecNext ==
    \/ ParseDescription
    \/ ExportAndParse

WorkerNext ==
    \/ \E req \in Requests, apiOutcome \in {"ok", "notOk", "throws"} :
            HandleRequest(req, apiOutcome)
    \/ \E videoId \in VideoIds, d \in VideoDescriptions : EditDescription(videoId, d)
    \/ Elapse

Next == LoadNext \/ EditNext \/ ClockNext \/ PlaybackNext

Spec == Init /\ [][Next]_vars

SpecEdit == Init /\ [][LoadNext \/ EditNext]_vars

SpecReload == Init /\ [][LoadNext \/ EditNext \/ Reload]_vars

SpecPlayback == Init /\ [][LoadNext \/ ClockNext \/ PlaybackNext]_vars

SpecAuto == Init /\ [][LoadNext \/ AutoNext]_vars

SpecCodec == InitCodec /\ [][CodecNext]_vars

SpecWorker == InitWorker /\ [][WorkerNext]_vars

\* the Worker deployed and the page opened, before DOMContentLoaded
InitPage ==
    /\ AppInit
    /\ codecIn = NoCodecInput
    /\ codecOut = NoCodecOutput
    /\ ytVideos \in [VideoIds -> [exists : BOOLEAN, description : {<<>>, DescOne}]]
    /\ kvConfigured \in BOOLEAN
    /\ kv = [k \in VideoIds |-> NoEntry]
    /\ request = NoRequest
    /\ response = NoResponse
    /\ workerLog = <<>>
    /\ videoDescription = DescPlain
    /\ PipelineIdle

PageNext ==
    \/ \E v \in Params, apiOutcome \in {"ok", "notOk", "throws"}, fetchOk \in BOOLEAN :
            DOMContentLoaded(v, apiOutcome, fetchOk)
    \/ Reload
    \/ OnYTPlayerReady
    \/ \E key \in {"e", "Escape"} : KeyDown(key, FALSE)

SpecPage == InitPage /\ [][PageNext]_vars

\* the speed keys, pressed on a page that has loaded
RateNext ==
    \/ \E key \in RateKeys : KeyDown(key, FALSE)
    \/ KeyDown("r", TRUE)

SpecRate == Init /\ [][LoadNext \/ RateNext]_vars

(***************************************************************************)
(* The timestamp codec on its own: formatTimestampForDescription of app.js *)
(* and parseTimestamp of the Worker                                        *)
(***************************************************************************)
\* the whole seconds below the first hour that are tried one by one
MaxSeconds == 130

\* the whole numbers of seconds under test: the first minutes, and times about
\* one hour, ten hours and a hundred hours
WholeSeconds ==
    (0..MaxSeconds) \cup (3595..3605) \cup {3661, 7325, 35999, 36000, 359999, 360000}

\* the digit strings of the fields of the timestamps under test
FieldTexts ==
    {<<"0">>, <<"5">>, <<"0", "7">>, <<"5", "9">>, <<"6", "0">>, <<"7", "5">>,
     <<"9", "9">>, <<"1", "0", "0">>}

\* the timestamp strings under test that the range pattern accepts: M:SS and
\* H:MM:SS with fields of one or two digits after the first, 60 to 99 included
TimestampTexts ==
    {ts \in {a \o <<":">> \o b : a \in FieldTexts, b \in FieldTexts}
            \cup {a \o <<":">> \o b \o <<":">> \o c :
                        a \in {<<"0">>, <<"1">>, <<"1", "0", "0">>},
                        b \in FieldTexts, c \in FieldTexts} :
        MatchTimestamp(ts, 1) = Len(ts) + 1}

TimestampInputs ==
    {[op |-> "seconds", seconds |-> t, text |-> <<>>] : t \in WholeSeconds}
        \cup {[op |-> "text", seconds |-> 0, text |-> ts] : ts \in TimestampTexts}

\* a whole number of seconds is formatted by the app and parsed by the Worker
FormatAndParse ==
    /\ codecIn.op = "seconds"
    /\ ~codecOut.done
    /\ LET text == formatTimestampForDescription(10 * codecIn.seconds) IN
       codecOut' = [done |-> TRUE, text |-> text, first |-> codecIn.seconds,
                    seconds |-> parseTimestamp(text)]
    /\ UNCHANGED <<appVars, ytDuration, written, codecIn, serviceVars>>

\* a timestamp string is parsed by the Worker, formatted by the app and parsed
\* again
ParseFormatParse ==
    /\ codecIn.op = "text"
    /\ ~codecOut.done
    /\ LET first == parseTimestamp(codecIn.text)
           text  == formatTimestampForDescription(10 * first)
       IN  codecOut' = [done |-> TRUE, text |-> text, first |-> first,
                        seconds |-> parseTimestamp(text)]
    /\ UNCHANGED <<appVars, ytDuration, written, codecIn, serviceVars>>

InitTimestamp ==
    /\ AppInit
    /\ codecIn \in TimestampInputs
    /\ codecOut = [done |-> FALSE, text |-> <<>>, first |-> 0, seconds |-> 0]
    /\ WorkerIdle
    /\ videoDescription = DescPlain
    /\ PipelineIdle

SpecTimestamp == InitTimestamp /\ [][FormatAndParse \/ ParseFormatParse]_vars

SpecDetector == InitDetector /\ [][Detect]_vars

SpecScorer == InitScorer /\ [][Score]_vars

SpecJobs == InitJobs /\ [][JobsNext]_vars

SpecLearner == InitLearner /\ [][\E fb \in FeedbackRecords : SubmitFeedback(fb)]_vars

(***************************************************************************)
(* Properties                                                              *)
(***************************************************************************)
\* C1: formatting a highlight set as copyForDescription does and parsing the text
\* back yields as many pairs as there are highlights, in ascending order of
\* start_time, each pair the (start, end) of its highlight to the second
C1_RoundTrip ==
    (codecIn.op = "roundtrip" /\ codecOut.done) =>
        LET sorted == SortByStart(codecIn.list) IN
        /\ Len(codecOut.pairs) = Len(sorted)
        /\ \A i \in 1..Len(sorted) :
            /\ codecOut.pairs[i].start_time = RoundToSeconds(sorted[i].start_time)
            /\ codecOut.pairs[i].end_time = RoundToSeconds(sorted[i].end_time)

\* the lines of a description that form its [Highlights] section: those after the
\* first header line and before the first following line that is empty or another
\* bracketed header
SectionLines(description) ==
    LET lines   == Split(description, "\n")
        headers == {i \in 1..Len(lines) : Trim(lines[i]) = HighlightsHeader}
    IN  IF description = <<>> \/ headers = {} THEN <<>>
        ELSE LET h    == CHOOSE i \in headers : \A j \in headers : i <= j
                 ends == {i \in (h + 1)..Len(lines) :
                             LET t == Trim(lines[i]) IN
                             \/ t = <<>>
                             \/ t[1] = "[" /\ t[Len(t)] = "]" /\ t # HighlightsHeader}
                 e    == IF ends = {} THEN Len(lines) + 1
                         ELSE CHOOSE i \in ends : \A j \in ends : i <= j
             IN  SubSeq(lines, h + 1, e - 1)

\* the (start, end) pairs of the range lines among `lines`, in order; with
\* `forwardOnly`, of those whose end is after their start
RECURSIVE RangePairs(_, _)
RangePairs(lines, forwardOnly) ==
    IF lines = <<>> THEN <<>>
    ELSE LET m    == MatchRange(Trim(Head(lines)))
             rest == RangePairs(Tail(lines), forwardOnly)
         IN  IF ~m.ok THEN rest
             ELSE LET pair == [start_time |-> parseTimestamp(m.first),
                               end_time |-> parseTimestamp(m.second)]
                  IN  IF forwardOnly /\ pair.end_time <= pair.start_time THEN rest
                      ELSE <<pair>> \o rest

\* C3 as stated: parseHighlightsFromDescription returns, in order, exactly the
\* pairs of the range lines of the [Highlights] section (and so nothing when
\* there is no header line)
C3_AllRangeLines ==
    (codecIn.op = "parse" /\ codecOut.done) =>
        codecOut.pairs = RangePairs(SectionLines(codecIn.description), FALSE)

\* C3, amended: parseHighlightsFromDescription returns, in order, exactly the
\* pairs of the range lines of the [Highlights] section whose end is after their
\* start; lines before the header and after the section's end contribute nothing
C3_ForwardRangeLines ==
    (codecIn.op = "parse" /\ codecOut.done) =>
        codecOut.pairs = RangePairs(SectionLines(codecIn.description), TRUE)

\* a parsed description with range lines outside its section and exactly one
\* inside it, which is returned
C3_Witness ==
    /\ codecIn.op = "parse"
    /\ codecOut.done
    /\ Len(codecOut.pairs) = 1
    /\ Len(RangePairs(Split(codecIn.description, "\n"), FALSE)) >= 2
    /\ Len(RangePairs(SectionLines(codecIn.description), FALSE)) = 1

\* C2: while sequential playback runs untouched, playAllClipIndex moves on by one
\* at a time and only from a clip that playCurrentClip has sought (no clip is
\* passed over), the clips are sought in the order 0, 1, ..., and the step that
\* moves past the last clip stops the playback and pauses the player
C2_SequentialPlayback ==
    [][/\ (isPlayingAll /\ playAllClipIndex' # playAllClipIndex) =>
            /\ playAllClipIndex' = playAllClipIndex + 1
            /\ lastSought = playAllClipIndex
       /\ (isPlayingAll' /\ lastSought' # lastSought) => lastSought' = lastSought + 1
       /\ (isPlayingAll /\ playAllClipIndex' >= Len(playAllClips)) =>
            (~isPlayingAll' /\ playerState' = "paused")]_vars

\* the ids of a list of highlights
HighlightIds(list) == {list[i].id : i \in 1..Len(list)}

\* the highlights of a list, as a set
HighlightSet(list) == {list[i] : i \in 1..Len(list)}

\* C4: in edit mode with nothing selected, '[' at a time t1 inside no highlight
\* and then ']' at a time t2 > t1, [t1, t2] overlapping no highlight, adds exactly
\* one highlight, from t1 to t2 and of source 'manual', selects it, resets
\* recordingStart and leaves every other highlight as it was
C4_BracketRecording ==
    (phase = "loaded" /\ mode = "edit" /\ selectedHighlightId = Null) =>
        LET t1     == getCurrentTime(Cur)
            opened == keydown(Cur, "[", FALSE)
        IN  \A seek \in 0..VideoLen :
                LET moved  == [opened EXCEPT !.playerTime = seek]
                    t2     == getCurrentTime(moved)
                    closed == keydown(moved, "]", FALSE)
                IN  (/\ \A i \in 1..Len(highlights) :
                            ~(t1 >= highlights[i].start_time /\ t1 < highlights[i].end_time)
                     /\ t2 > t1
                     /\ \A i \in 1..Len(highlights) :
                            ~(t1 < highlights[i].end_time /\ t2 > highlights[i].start_time))
                    => /\ Len(closed.highlights) = Len(highlights) + 1
                       /\ closed.recordingStart = NoTime
                       /\ \E k \in 1..Len(closed.highlights) :
                            /\ closed.highlights[k].start_time = t1
                            /\ closed.highlights[k].end_time = t2
                            /\ closed.highlights[k].source = "manual"
                            /\ closed.highlights[k].id = closed.selectedHighlightId
                            /\ closed.highlights[k].id \notin HighlightIds(highlights)
                            /\ HighlightSet(closed.highlights) \ {closed.highlights[k]}
                                   = HighlightSet(highlights)

\* a highlight recorded with the bracket keys beside an older one: it is selected
\* and no recording is open
C4_Witness ==
    /\ mode = "edit"
    /\ recordingStart = NoTime
    /\ Len(highlights) = 2
    /\ \E k \in 1..2 :
        /\ highlights[k].source = "manual"
        /\ highlights[k].id = selectedHighlightId
        /\ highlights[k].id = <<"manual", highlightCounter>>

\* C5: a successful load leaves the mode 'watch' exactly if the description
\* yielded a highlight and 'edit' otherwise; the player becoming ready starts the
\* sequential playback only if the mode is 'watch' and the list is not empty
C5_InitialMode ==
    [][/\ \A d \in Descriptions :
            LoadVideoData(d) =>
                /\ (Len(parseHighlightsFromDescription(d)) > 0) => mode' = "watch"
                /\ (Len(parseHighlightsFromDescription(d)) = 0) => mode' = "edit"
       /\ (~ytPlayerReady /\ ytPlayerReady' /\ isPlayingAll') =>
            (mode = "watch" /\ Len(highlights) > 0)]_vars

\* the player became ready in edit mode, highlights in the list, and nothing plays
C5_Witness ==
    /\ ytPlayerReady
    /\ mode = "edit"
    /\ Len(highlights) > 0
    /\ \A i \in 1..Len(highlights) : highlights[i].source = "description"
    /\ ~isPlayingAll
    /\ playerState = "paused"

\* C6: while the mode is 'watch', no key, with or without the meta key, changes
\* the highlights list or recordingStart
C6_WatchReadOnly ==
    (phase = "loaded" /\ mode = "watch") =>
        \A key \in Keys \cup RateKeys, isMeta \in BOOLEAN :
            LET pressed == keydown(Cur, key, isMeta) IN
            /\ pressed.highlights = highlights
            /\ pressed.recordingStart = recordingStart

\* watch mode with a highlight selected, where Delete would have something to remove
C6_Witness ==
    /\ phase = "loaded"
    /\ mode = "watch"
    /\ ytPlayerReady
    /\ selectedHighlightId \in HighlightIds(highlights)

\* C7: the highlights of the list have pairwise distinct ids, none numbered above
\* highlightCounter; highlightCounter never decreases; and an id that enters
\* the list is numbered above the counter, so it is none that was given before
C7_UniqueIds ==
    /\ [](\A i, j \in 1..Len(highlights) : i # j => highlights[i].id # highlights[j].id)
    /\ [](\A i \in 1..Len(highlights) : highlights[i].id[2] <= highlightCounter)
    /\ [][/\ highlightCounter' >= highlightCounter
          /\ \A id \in HighlightIds(highlights') \ HighlightIds(highlights) :
                id[2] > highlightCounter]_vars

\* a highlight created after another was deleted
C7_Witness ==
    /\ highlightCounter > Len(highlights)
    /\ Len(highlights) = 2
    /\ <<"manual", highlightCounter>> \in HighlightIds(highlights)

\* `text` is the watch URL, an empty line, the header and one range line per
\* highlight of `list`, the highlights in ascending order of start_time
IsExportOf(text, list) ==
    LET lines == Split(text, "\n") IN
    /\ Len(lines) = 3 + Len(list)
    /\ lines[1] = WatchUrl
    /\ lines[2] = <<>>
    /\ lines[3] = HighlightsHeader
    /\ \E order \in Permutations(1..Len(list)) :
        /\ \A i, j \in 1..Len(list) :
            i < j => list[order[i]].start_time <= list[order[j]].start_time
        /\ \A i \in 1..Len(list) :
            lines[3 + i] = formatTimestampForDescription(list[order[i]].start_time)
                               \o <<" ", "-", " ">>
                               \o formatTimestampForDescription(list[order[i]].end_time)

\* C8: copyForDescription writes nothing when the list is empty, and otherwise
\* (the clipboard accepting it) the watch URL, an empty line, '[Highlights]' and
\* one range line per highlight in ascending order of start_time; it leaves the
\* highlights, the selection and the mode as they were
C8_Export ==
    [][\A ok \in BOOLEAN :
        CopyForDescription(ok) =>
            /\ UNCHANGED <<highlights, selectedHighlightId, mode>>
            /\ (highlights = <<>>) => written' = Null
            /\ (highlights # <<>> /\ ok) => IsExportOf(written', highlights)]_vars

\* an export of a list that is not in ascending order
C8_Witness ==
    /\ written # Null
    /\ Len(highlights) = 2
    /\ highlights[1].start_time > highlights[2].start_time

\* C9: in edit mode Delete and Backspace remove the selected highlight and no
\* other, the rest keeping their bounds and order, and clear the selection; with
\* nothing selected they change nothing
C9_Delete ==
    (phase = "loaded" /\ mode = "edit") =>
        \A key \in {"Delete", "Backspace"} :
            LET pressed == keydown(Cur, key, FALSE) IN
            IF selectedHighlightId # Null
            THEN /\ pressed.selectedHighlightId = Null
                 /\ \E k \in 1..Len(highlights) :
                        /\ highlights[k].id = selectedHighlightId
                        /\ pressed.highlights =
                               SubSeq(highlights, 1, k - 1)
                                   \o SubSeq(highlights, k + 1, Len(highlights))
            ELSE pressed = Cur

\* edit mode, one of two highlights selected, after an earlier deletion
C9_Witness ==
    /\ phase = "loaded"
    /\ mode = "edit"
    /\ Len(highlights) = 2
    /\ selectedHighlightId = highlights[1].id
    /\ highlightCounter > Len(highlights)

\* C10: in edit mode with a recording open, '\' sets recordingStart to null and
\* leaves the highlights, the selection and the mode; with none open it changes
\* nothing
C10_Cancel ==
    (phase = "loaded" /\ mode = "edit") =>
        LET pressed == keydown(Cur, "\\", FALSE) IN
        IF recordingStart # NoTime
        THEN /\ pressed.recordingStart = NoTime
             /\ pressed.highlights = highlights
             /\ pressed.selectedHighlightId = selectedHighlightId
             /\ pressed.mode = mode
        ELSE pressed = Cur

\* a recording open in edit mode while a highlight is selected
C10_Witness ==
    /\ phase = "loaded"
    /\ mode = "edit"
    /\ recordingStart # NoTime
    /\ selectedHighlightId \in HighlightIds(highlights)

\* C11: Escape never changes the highlights list; in edit mode with a highlight
\* selected it clears the selection and nothing else, so the mode stays 'edit'
\* and a second Escape switches to 'watch'; in edit mode with nothing selected
\* it switches to 'watch'; in watch mode it clears the selection and nothing else
C11_EscapeTwoStep ==
    (phase = "loaded") =>
        \A isMeta \in BOOLEAN :
            LET pressed == keydown(Cur, "Escape", isMeta) IN
            /\ pressed.highlights = highlights
            /\ (mode = "edit" /\ selectedHighlightId # Null) =>
                    /\ pressed = [Cur EXCEPT !.selectedHighlightId = Null]
                    /\ keydown(pressed, "Escape", isMeta).mode = "watch"
            /\ (mode = "edit" /\ selectedHighlightId = Null) => pressed.mode = "watch"
            /\ (mode = "watch") => pressed = [Cur EXCEPT !.selectedHighlightId = Null]

\* watch mode entered from edit mode: a recorded highlight in the list (recording
\* selects it) and nothing selected
C11_Witness ==
    /\ phase = "loaded"
    /\ mode = "watch"
    /\ selectedHighlightId = Null
    /\ \E i \in 1..Len(highlights) : highlights[i].source = "manual"

ApiOutcomes == {"ok", "notOk", "throws"}

\* the v parameter is missing or is not 11 characters of [A-Za-z0-9_-]
BadParam(v) ==
    \/ ~v.present
    \/ Len(v.value) # 11
    \/ \E i \in 1..Len(v.value) : v.value[i] \notin IdChars

\* the requests of the given methods that fail validation are answered 404 (any
\* other path) or 400 'Invalid video ID' (the path of the API, bad v), without a
\* cache read, a cache write or a call of the YouTube API
ValidationOf(methods) ==
    \A req \in Requests, apiOutcome \in ApiOutcomes :
        LET done == WorkerFetch(req, kvConfigured, kv, ytVideos, apiOutcome) IN
        (req.method \in methods) =>
            /\ (req.pathname # ApiPath) =>
                    /\ done.response.status = 404
                    /\ done.kv = kv
                    /\ done.log = <<>>
            /\ (req.pathname = ApiPath /\ BadParam(req.v)) =>
                    /\ done.response.status = 400
                    /\ done.response.error = "Invalid video ID"
                    /\ done.kv = kv
                    /\ done.log = <<>>

\* C12 (as stated): every request to a path other than /api/yt-metadata gets 404
\* and every request to that path with a missing or malformed v gets 400 with
\* error 'Invalid video ID', the cache and the YouTube API untouched.  An OPTIONS
\* request is answered as a preflight, with status 200, before the path is
\* looked at.
C12_AnyRequest == ValidationOf({"GET", "POST", "OPTIONS"})

\* C12 (amended): in every state of the Worker, a request other than an OPTIONS
\* preflight gets 404 when its path is not /api/yt-metadata, and 400 with error
\* 'Invalid video ID' when its path is that one and v is missing or is not
\* exactly 11 characters of [A-Za-z0-9_-]; in both cases the cache is neither
\* read nor written and the YouTube API is not called.
C12_Validation == ValidationOf({"GET", "POST"})

\* the Worker, holding a cached entry, has just refused a request for a v of 11
\* characters one of which is outside the class
C12_Witness ==
    /\ request.method = "GET"
    /\ request.pathname = ApiPath
    /\ request.v.present /\ Len(request.v.value) = 11 /\ BadParam(request.v)
    /\ response.status = 400
    /\ workerLog = <<>>
    /\ \E k \in VideoIds : kv[k].present

\* the requests that pass validation: not a preflight, the path of the API, v a
\* video id
Lookups == {req \in Requests : req.method # "OPTIONS" /\ req.pathname = ApiPath
                                /\ req.v.present /\ IsVideoId(req.v.value)}

\* the calls of the YouTube API in a log
ApiCalls(log) == {i \in 1..Len(log) : log[i].op = "api"}

\* C13: in every state of the Worker and for every request for a video id: with
\* the cache configured and an entry cached under the id, the response is that
\* entry and the YouTube API is not called; with the cache configured and no
\* entry, the API is called once and, when it yields a result, the cache holds
\* that result under the id with a TTL of 3600 seconds and the response carries
\* the same object; with no cache configured the API is called.
C13_ReadThrough ==
    \A req \in Lookups, apiOutcome \in ApiOutcomes :
        LET videoId == req.v.value
            done    == WorkerFetch(req, kvConfigured, kv, ytVideos, apiOutcome)
        IN  /\ (kvConfigured /\ kv[videoId].present) =>
                    /\ done.response = jsonResponse("", kv[videoId].value, 200)
                    /\ ApiCalls(done.log) = {}
                    /\ done.kv = kv
            /\ (kvConfigured /\ ~kv[videoId].present) =>
                    /\ Cardinality(ApiCalls(done.log)) = 1
                    /\ (apiOutcome = "ok" /\ ytVideos[videoId].exists) =>
                            /\ done.response.status = 200
                            /\ done.kv[videoId].present
                            /\ done.kv[videoId].value = done.response.result
                            /\ done.kv[videoId].ttl = 60 * 60
                            /\ \A k \in VideoIds \ {videoId} : done.kv[k] = kv[k]
            /\ ~kvConfigured =>
                    /\ Cardinality(ApiCalls(done.log)) = 1
                    /\ done.kv = kv

\* the Worker has just answered from the cache, the entry half an hour old and
\* the other video not cached
C13_Witness ==
    /\ kvConfigured
    /\ request \in Lookups
    /\ workerLog = <<[op |-> "get", key |-> request.v.value]>>
    /\ response.status = 200
    /\ kv[request.v.value].age > 0
    /\ \E k \in VideoIds : ~kv[k].present

\* C14: in every state of the Worker, a successful response to a request for a
\* video id carries the highlights of the description the video has at that
\* moment (so the first successful response after an edit of the description
\* reflects the edit).
C14_Stateless ==
    \A req \in Lookups, apiOutcome \in ApiOutcomes :
        LET videoId == req.v.value
            done    == WorkerFetch(req, kvConfigured, kv, ytVideos, apiOutcome)
        IN  (done.response.status = 200) =>
                done.response.result.highlights =
                    parseHighlightsFromDescription(ytVideos[videoId].description)

\* the (start, end) pairs of a highlight list, in list order
Ranges(list) == [i \in 1..Len(list) |-> <<list[i].start_time, list[i].end_time>>]

\* C15: in every state of the loaded page, whatever highlights were created,
\* adjusted or deleted since the load, reloading the page for the same video
\* (the script run again from its declarations, then loadVideoData with the
\* description of the video) yields the highlight list the page has now.
C15_DraftPersistence ==
    (phase = "loaded") =>
        Ranges(loadVideoData(FreshPage, videoDescription).highlights) = Ranges(highlights)

\* the sum of (duration + context_before + context_after) over the selected
\* rallies among the first n of a ScoredRally list
RECURSIVE SelectedTotal(_, _, _)
SelectedTotal(sr, n, cfg) ==
    IF n = 0 THEN 0
    ELSE SelectedTotal(sr, n - 1, cfg)
            + (IF sr[n].is_selected
               THEN sr[n].rally.duration + cfg.context_before + cfg.context_after
               ELSE 0)

\* C16: for every Rally list, weight vector and budget, the scored list is in
\* rank order (no rally scores higher than one before it), the sum of
\* (duration + context_before + context_after) over the selected rallies is at
\* most config.max_duration, every rally after an unselected one is unselected,
\* and the first unselected rally is one that did not fit in the budget.
C16_Budget ==
    LET n == Len(scoredRallies) IN
    /\ SelectedTotal(scoredRallies, n, config) <= config.max_duration
    /\ \A i, j \in 1..n :
            i < j => /\ scoredRallies[i].score >= scoredRallies[j].score
                     /\ scoredRallies[j].is_selected => scoredRallies[i].is_selected
    /\ \A i \in 1..n :
            (~scoredRallies[i].is_selected /\ (i = 1 \/ scoredRallies[i - 1].is_selected))
                => SelectedTotal(scoredRallies, n, config)
                       + scoredRallies[i].rally.duration
                       + config.context_before + config.context_after
                   > config.max_duration

\* three rallies scored, the two that rank first selected and the budget
\* exhausted before the third
C16_Witness ==
    /\ Len(scoredRallies) = 3
    /\ scoredRallies[2].is_selected
    /\ ~scoredRallies[3].is_selected
    /\ scoredRallies[1].rally.start_time > scoredRallies[2].rally.start_time

\* every weight of a vector is >= 0
NonNegative(w) == \A f \in Features : w[f] >= 0

SumComponents(c) ==
    c.duration + c.hit_count + c.crowd_intensity + c.motion_intensity + c.confidence

C18_OneJobPerSource ==
    /\ [](\A i, j \in 1..Len(jobs) : jobs[i] = jobs[j] => i = j)
    /\ [][\A source \in Sources, kind \in JobKinds :
            (Request(source, kind) /\ InFlight(source, kind)) =>
                /\ lastError' = "ConcurrencyError"
                /\ UNCHANGED <<jobs, hits, rallies, scoredRallies, weights, config>>]_vars

\* a compile request for match1 has just been rejected, both jobs of match1 in
\* flight and the rallies of an earlier analysis current
C18_Witness ==
    /\ lastError = "ConcurrencyError"
    /\ InFlight("match1", "analysis") /\ InFlight("match1", "compilation")
    /\ rallies # <<>>

C20_WellFormed ==
    \A i \in 1..Len(highlights) :
        /\ highlights[i].start_time < highlights[i].end_time
        /\ highlights[i].duration = highlights[i].end_time - highlights[i].start_time

\* the highlight loaded from '0:01 - 0:02' has had its start moved to 0:00
C20_Witness ==
    /\ videoDescription = DescOne
    /\ Len(highlights) = 1
    /\ highlights[1].source = "description"
    /\ highlights[1].start_time = 0
    /\ highlights[1].end_time = 20

\* two highlights overlap when a.start < b.end and a.end > b.start
NonOverlapping(list) ==
    \A i, j \in 1..Len(list) :
        i # j => ~(list[i].start_time < list[j].end_time
                    /\ list[i].end_time > list[j].start_time)

\* the highlights the page was loaded with
LoadedHighlights == FromDescription(parseHighlightsFromDescription(videoDescription))

\* C21: in every state of an editing session whose highlights were pairwise
\* non-overlapping as loaded from the description, the highlights are pairwise
\* non-overlapping.
C21_NoOverlap ==
    (phase = "loaded" /\ NonOverlapping(LoadedHighlights)) => NonOverlapping(highlights)

\* a highlight made with the bracket keys ends where the highlight loaded from
\* '0:01 - 0:02' starts
C21_Witness ==
    /\ videoDescription = DescOne
    /\ Len(highlights) = 2
    /\ highlights[1].source = "manual"
    /\ highlights[1].end_time = highlights[2].start_time
    /\ highlights[2].source = "description"

\* a list is in ascending order of start_time
Ascending(list) ==
    \A i, j \in 1..Len(list) : i < j => list[i].start_time <= list[j].start_time

\* C22: in every state after the load the highlights array is in ascending order
\* of start_time, Cmd+ArrowUp selects a highlight with the smallest start_time
\* and Cmd+ArrowDown one with the largest.
C22_Sorted ==
    (phase = "loaded") =>
        /\ Ascending(highlights)
        /\ \A i \in 1..Len(highlights) :
                LET first == keydown(Cur, "ArrowUp", TRUE).selectedHighlightId
                    last  == keydown(Cur, "ArrowDown", TRUE).selectedHighlightId
                IN  /\ highlights[FindIndex(highlights, first)].start_time
                            <= highlights[i].start_time
                    /\ highlights[FindIndex(highlights, last)].start_time
                            >= highlights[i].start_time

\* the start times of a list
Starts(list) == {list[i].start_time : i \in 1..Len(list)}

\* the least and the greatest of a non-empty set of times
Least(times) == CHOOSE t \in times : \A u \in times : t <= u

Greatest(times) == CHOOSE t \in times : \A u \in times : t >= u

\* the start time of the highlight selected in a state
SelectedStart(s) == s.highlights[FindIndex(s.highlights, s.selectedHighlightId)].start_time

\* the highlights selected by pressing ArrowDown n times from a state
RECURSIVE Visited(_, _)
Visited(s, n) ==
    IF n = 0 THEN {}
    ELSE LET pressed == keydown(s, "ArrowDown", FALSE) IN
         {pressed.selectedHighlightId} \cup Visited(pressed, n - 1)

\* C23: in every state where the player stands at the start of the selected
\* highlight, ArrowDown selects a highlight with the next larger start_time, or
\* with the smallest when there is none larger; ArrowUp one with the next smaller
\* start_time, or with the largest when there is none smaller; and ArrowDown
\* pressed as many times as there are highlights selects every highlight.
C23_PrevNext ==
    (/\ phase = "loaded"
     /\ ytPlayerReady
     /\ selectedHighlightId \in HighlightIds(highlights)
     /\ playerTime = SelectedStart(Cur)) =>
        LET here   == SelectedStart(Cur)
            later  == {t \in Starts(highlights) : t > here}
            before == {t \in Starts(highlights) : t < here}
            down   == keydown(Cur, "ArrowDown", FALSE)
            up     == keydown(Cur, "ArrowUp", FALSE)
        IN  /\ down.selectedHighlightId \in HighlightIds(highlights)
            /\ SelectedStart(down) = IF later # {} THEN Least(later)
                                     ELSE Least(Starts(highlights))
            /\ up.selectedHighlightId \in HighlightIds(highlights)
            /\ SelectedStart(up) = IF before # {} THEN Greatest(before)
                                   ELSE Greatest(Starts(highlights))
            /\ Visited(Cur, Len(highlights)) = HighlightIds(highlights)

\* C24: in every state a recording in progress implies edit mode; and from a
\* state with a recording in progress, the switch to watch mode (setMode, and
\* the Escape key that calls it when nothing is selected) leaves no recording
\* and the highlights list exactly as it was.
C24_RecordingInEdit ==
    /\ (recordingStart # NoTime) => mode = "edit"
    /\ (phase = "loaded" /\ recordingStart # NoTime) =>
            /\ setMode(Cur, "watch").mode = "watch"
            /\ setMode(Cur, "watch").recordingStart = NoTime
            /\ setMode(Cur, "watch").highlights = highlights
            /\ (selectedHighlightId = Null) =>
                    \A isMeta \in BOOLEAN :
                        /\ keydown(Cur, "Escape", isMeta).mode = "watch"
                        /\ keydown(Cur, "Escape", isMeta).recordingStart = NoTime
                        /\ keydown(Cur, "Escape", isMeta).highlights = highlights

\* a recording is in progress, nothing selected, beside a highlight of the list
C24_Witness ==
    /\ phase = "loaded"
    /\ recordingStart # NoTime
    /\ selectedHighlightId = Null
    /\ Len(highlights) > 0


\* C25: the selection is null or the id of a highlight in the list; deleting the
\* selected highlight, with the key or with its delete button, clears the
\* selection, and deleting another highlight with its button leaves the selection
\* as it was
C25_SelectionValid ==
    /\ selectedHighlightId = Null \/ selectedHighlightId \in HighlightIds(highlights)
    /\ (phase = "loaded" /\ mode = "edit") =>
           /\ (selectedHighlightId # Null) =>
                  \A key \in {"Delete", "Backspace"} :
                      /\ keydown(Cur, key, FALSE).selectedHighlightId = Null
                      /\ selectedHighlightId
                             \notin HighlightIds(keydown(Cur, key, FALSE).highlights)
           /\ \A id \in HighlightIds(highlights) :
                  /\ id \notin HighlightIds(deleteHighlight(Cur, id).highlights)
                  /\ deleteHighlight(Cur, id).selectedHighlightId =
                         IF id = selectedHighlightId THEN Null ELSE selectedHighlightId
                  /\ deleteHighlight(Cur, id).selectedHighlightId = Null
                         \/ deleteHighlight(Cur, id).selectedHighlightId
                                \in HighlightIds(deleteHighlight(Cur, id).highlights)

\* edit mode, the second of two highlights selected: the delete button of the
\* first deletes another highlight, that of the second the selected one
C25_Witness ==
    /\ phase = "loaded"
    /\ mode = "edit"
    /\ Len(highlights) = 2
    /\ selectedHighlightId = highlights[2].id
    /\ highlights[1].source = "manual"


\* the player time, as the key handler reads it, lies inside a highlight
InsideHighlight(time) ==
    \E i \in 1..Len(highlights) :
        time >= highlights[i].start_time /\ time < highlights[i].end_time

\* the range from start to end overlaps a highlight other than the one excluded
OverlapsAnother(start, end, excludeId) ==
    \E i \in 1..Len(highlights) :
        /\ highlights[i].id # excludeId
        /\ start < highlights[i].end_time
        /\ end > highlights[i].start_time

\* the press left the highlights, the selection and the recording as they were
Untouched(pressed) ==
    /\ pressed.highlights = highlights
    /\ pressed.selectedHighlightId = selectedHighlightId
    /\ pressed.recordingStart = recordingStart

\* C26: in edit mode a '[' at a time inside a highlight that does not adjust the
\* selected highlight, a '[' whose range to the end of the selected highlight
\* overlaps another highlight, a ']' whose range from the recording start overlaps
\* a highlight, and a ']' whose range from the start of the selected highlight
\* overlaps another highlight all leave highlights, selectedHighlightId and
\* recordingStart unchanged
C26_RejectedBrackets ==
    (phase = "loaded" /\ mode = "edit") =>
        LET time     == getCurrentTime(Cur)
            index    == SelectedIndex(Cur)
            adjusts  == /\ recordingStart = NoTime
                        /\ index >= 1
                        /\ time < highlights[index].end_time
            finishes == recordingStart # NoTime /\ time > recordingStart
        IN  /\ (InsideHighlight(time)
                  /\ ~(adjusts /\ ~OverlapsAnother(time, highlights[index].end_time,
                                                   selectedHighlightId)))
                   => Untouched(keydown(Cur, "[", FALSE))
            /\ (adjusts /\ OverlapsAnother(time, highlights[index].end_time,
                                           selectedHighlightId))
                   => Untouched(keydown(Cur, "[", FALSE))
            /\ (finishes /\ OverlapsAnother(recordingStart, time, Null))
                   => Untouched(keydown(Cur, "]", FALSE))
            /\ (~finishes /\ index >= 1 /\ time > highlights[index].start_time
                  /\ OverlapsAnother(highlights[index].start_time, time,
                                     selectedHighlightId))
                   => Untouched(keydown(Cur, "]", FALSE))

\* a recording is open and a highlight lies between its start and the player
\* time: ']' is rejected and the recording stays open
C26_Witness ==
    /\ phase = "loaded"
    /\ mode = "edit"
    /\ recordingStart # NoTime
    /\ getCurrentTime(Cur) > recordingStart
    /\ OverlapsAnother(recordingStart, getCurrentTime(Cur), Null)
    /\ keydown(Cur, "]", FALSE).recordingStart = recordingStart


\* the highlight of the list with this id, as a set of one or no record
HighlightWithId(list, id) == {list[i] : i \in {k \in 1..Len(list) : list[k].id = id}}

\* C27: in edit mode with a recording open, '[' leaves the highlights and the
\* selection and only moves or keeps the recording start, and ']' either adds
\* one new highlight, made from the recording, and leaves every other highlight
\* as it was, or leaves every highlight as it was
C27_RecordingBrackets ==
    (phase = "loaded" /\ mode = "edit" /\ recordingStart # NoTime) =>
        /\ keydown(Cur, "[", FALSE).highlights = highlights
        /\ keydown(Cur, "[", FALSE).selectedHighlightId = selectedHighlightId
        /\ keydown(Cur, "[", FALSE).recordingStart \in {recordingStart, getCurrentTime(Cur)}
        /\ \/ /\ Len(keydown(Cur, "]", FALSE).highlights) = Len(highlights)
              /\ \A id \in HighlightIds(highlights) :
                     HighlightWithId(keydown(Cur, "]", FALSE).highlights, id)
                         = HighlightWithId(highlights, id)
           \/ /\ Len(keydown(Cur, "]", FALSE).highlights) = Len(highlights) + 1
              /\ \A id \in HighlightIds(highlights) :
                     HighlightWithId(keydown(Cur, "]", FALSE).highlights, id)
                         = HighlightWithId(highlights, id)
              /\ \E h \in {keydown(Cur, "]", FALSE).highlights[i] :
                               i \in 1..Len(keydown(Cur, "]", FALSE).highlights)} :
                     /\ h.id \notin HighlightIds(highlights)
                     /\ h.start_time = recordingStart
                     /\ h.end_time = getCurrentTime(Cur)


\* the state the handlers work on, but for the pending timers
SansTimers(s) == [s EXCEPT !.advanceTimers = {}, !.staleTimers = {}]

\* C28: stopPlayAll leaves isPlayingAll false, by the Stop control, by setMode('edit')
\* during playback and by the end of the last clip; while isPlayingAll is false
\* a clip-advance timeout changes nothing, a period of the time-update interval
\* changes only what the player's own clock changes, and isPlayingAll becomes
\* true again only by a call of startPlayAll
C28_StoppingIsFinal ==
    /\ [](/\ stopPlayAll(Cur).isPlayingAll = FALSE
          /\ isPlayingAll => setMode(Cur, "edit").isPlayingAll = FALSE
          /\ (isPlayingAll /\ playAllClipIndex = Len(playAllClips) - 1
                /\ ClipEnded(playAllClips[playAllClipIndex + 1], getCurrentTime(Cur)))
                 => onPlayAllTimeUpdate(Cur).isPlayingAll = FALSE)
    /\ [][/\ (~isPlayingAll /\ \E r \in 0..ClipAdvanceDelay : AdvanceTimeout(r))
                 => SansTimers(Cur)' = SansTimers(Cur)
          /\ (~isPlayingAll /\ \E dt \in {0, 1} : Tick(dt))
                 => \E dt \in {0, 1} : SansTimers(Cur)' = SansTimers(Playback(Cur, dt))
          /\ (~isPlayingAll /\ isPlayingAll') => (ClickPlayAll \/ OnYTPlayerReady)]_vars

\* playback was stopped while a clip-advance timeout is pending and the player
\* plays on
C28_Witness ==
    /\ phase = "loaded"
    /\ ~isPlayingAll
    /\ advanceTimers # {}
    /\ playerState = "playing"
    /\ Len(playAllClips) > 1


\* C29: at most one clip-advance timeout is pending at any time, and a timeout
\* that was set before the last call of startPlayAll changes nothing of the
\* playback or the player when it fires
C29_TimerSession ==
    /\ [](Cardinality(advanceTimers) <= 1)
    /\ [][\A r \in 0..ClipAdvanceDelay :
              (r \in staleTimers /\ AdvanceTimeout(r))
                  => SansTimers(Cur)' = SansTimers(Cur)]_vars


\* C30: while isPlayingAll is true playAllClips is not empty and playAllClipIndex
\* is an index of it; startPlayAll on an empty highlights list leaves isPlayingAll
\* false
C30_IndexBounds ==
    /\ isPlayingAll =>
           /\ Len(playAllClips) > 0
           /\ 0 <= playAllClipIndex
           /\ playAllClipIndex < Len(playAllClips)
    /\ (phase = "loaded" /\ Len(highlights) = 0) =>
           /\ ~isPlayingAll
           /\ startPlayAll(Cur).isPlayingAll = FALSE

\* the playback is at its last clip, one interval period before the clip ends
C30_Witness ==
    /\ isPlayingAll
    /\ Len(playAllClips) > 1
    /\ playAllClipIndex = Len(playAllClips) - 1
    /\ lastSought = playAllClipIndex
    /\ playerState = "playing"
    /\ playerTime = playAllClips[playAllClipIndex + 1].end_time - 2


\* the keys that jump in the video or select a highlight
SeekKeys == {"ArrowUp", "ArrowDown", "ArrowLeft", "ArrowRight", "z", "x"}

\* C31: while the playback is active the jump keys, the selection keys and the
\* selection of a highlight leave playAllClipIndex and playAllClips as they are;
\* playAllClipIndex grows only by one, in a period of the time-update interval
\* in which the player's time has reached the end of the current clip less 0.1 s,
\* and playAllClips changes only in a call of startPlayAll
C31_PlaybackCursor ==
    /\ [](isPlayingAll =>
            /\ \A key \in SeekKeys, isMeta \in BOOLEAN :
                   /\ keydown(Cur, key, isMeta).playAllClipIndex = playAllClipIndex
                   /\ keydown(Cur, key, isMeta).playAllClips = playAllClips
            /\ \A id \in HighlightIds(highlights) :
                   /\ selectHighlight(Cur, id).playAllClipIndex = playAllClipIndex
                   /\ selectHighlight(Cur, id).playAllClips = playAllClips)
    /\ [][/\ (playAllClipIndex' > playAllClipIndex) =>
                 /\ isPlayingAll
                 /\ playAllClipIndex' = playAllClipIndex + 1
                 /\ \E dt \in {0, 1} : Tick(dt)
                 /\ ClipEnded(playAllClips[playAllClipIndex + 1], playerTime')
          /\ (playAllClipIndex' # playAllClipIndex /\ ~(playAllClipIndex' > playAllClipIndex))
                 => (ClickPlayAll \/ OnYTPlayerReady)
          /\ (playAllClips' # playAllClips) => (ClickPlayAll \/ OnYTPlayerReady)]_vars

\* the viewer has selected the second clip while the playback is at the first:
\* the player is at the second clip's start and the cursor is still 0
C31_Witness ==
    /\ isPlayingAll
    /\ Len(playAllClips) > 1
    /\ playAllClipIndex = 0
    /\ selectedHighlightId = playAllClips[2].id
    /\ playerTime = playAllClips[2].start_time
    /\ playAllClips[2].start_time > playAllClips[1].start_time

\* C32: every entry of the cache holds, under its key, a result object for that
\* video id; a request whose answer is not a 200 leaves the cache as it was
\* (YouTube not OK: 502, no such video: 404, an exception: 500, and the requests
\* refused before the lookup); and a response served from the cache carries no
\* error
C32_NoCachedFailure ==
    /\ \A k \in VideoIds :
           kv[k].present => /\ kv[k].value # NoResult
                            /\ kv[k].value.videoId = k
                            /\ kv[k].value.highlights =
                                   parseHighlightsFromDescription(kv[k].value.description)
    /\ \A req \in Requests, apiOutcome \in ApiOutcomes :
           LET done == WorkerFetch(req, kvConfigured, kv, ytVideos, apiOutcome) IN
           /\ (done.response.status # 200) => done.kv = kv
           /\ (req \in Lookups /\ (apiOutcome # "ok" \/ ~ytVideos[req.v.value].exists)
                 /\ ~(kvConfigured /\ kv[req.v.value].present))
                  => /\ done.response.status \in {502, 404, 500}
                     /\ done.response.error # ""
                     /\ done.kv = kv
           /\ (req \in Lookups /\ kvConfigured /\ kv[req.v.value].present)
                  => /\ done.response.status = 200
                     /\ done.response.error = ""
                     /\ done.response.result.videoId = req.v.value

\* the Worker, with an entry cached for one video, has just answered 404 for the
\* other, which does not exist and is not cached
C32_Witness ==
    /\ kvConfigured
    /\ request \in Lookups
    /\ response.status = 404
    /\ response.error = "Video not found"
    /\ ~kv[request.v.value].present
    /\ \E k \in VideoIds : kv[k].present


\* C33: a page opened for a v that is missing or is not 11 characters of
\* [A-Za-z0-9_-] shows the error state and sends nothing to the Worker; a page
\* whose fetch fails or whose answer from the Worker carries an error shows the
\* error state; in the error state highlights is empty, mode is 'watch', the
\* player is not ready, and no key handler or player callback runs before the
\* page is opened again
C33_LoadFailure ==
    /\ [](phase = "error" =>
            /\ highlights = <<>>
            /\ mode = "watch"
            /\ highlightCounter = 0
            /\ ~ytPlayerReady
            /\ ~isPlayingAll)
    /\ [][/\ \A v \in Params, apiOutcome \in ApiOutcomes, fetchOk \in BOOLEAN :
                DOMContentLoaded(v, apiOutcome, fetchOk) =>
                    /\ BadParam(v) =>
                           /\ phase' = "error"
                           /\ UNCHANGED <<request, response, kv, workerLog>>
                    /\ (~BadParam(v) /\ ~fetchOk) => phase' = "error"
                    /\ (~BadParam(v) /\ fetchOk /\ response'.error # "") => phase' = "error"
          /\ (phase = "error") => (Reload \/ UNCHANGED <<phase, pageVars>>)]_vars

\* the page shows the error state after the Worker, which holds a cached entry
\* for the other video, answered that the video was not found
C33_Witness ==
    /\ phase = "error"
    /\ request.v.present /\ IsVideoId(request.v.value)
    /\ response.status = 404
    /\ response.error = "Video not found"
    /\ \E k \in VideoIds : kv[k].present


\* C34: the player's rate, which is the rate the speed keys requested last, is a
\* whole number of tenths from 0.1 to 4.0; with the player ready 'd' requests
\* the rate plus 0.1, or 4.0 at 4.0, 's' the rate less 0.1, or 0.1 at 0.1, and
\* 'r' 1.0 at 2.0 and 2.0 otherwise
C34_RateBounds ==
    /\ playbackRate \in 1..40
    /\ (phase = "loaded" /\ ytPlayerReady) =>
           /\ \A isMeta \in BOOLEAN :
                  /\ keydown(Cur, "d", isMeta).playbackRate =
                         IF playbackRate = 40 THEN 40 ELSE playbackRate + 1
                  /\ keydown(Cur, "s", isMeta).playbackRate =
                         IF playbackRate = 1 THEN 1 ELSE playbackRate - 1
           /\ keydown(Cur, "r", FALSE).playbackRate =
                  IF playbackRate = 20 THEN 10 ELSE 20

\* the rate has been taken to its upper bound
C34_Witness == phase = "loaded" /\ ytPlayerReady /\ playbackRate = 40


\* the amounts the jump keys add to the player's time
JumpOf(key) ==
    CASE key = "ArrowLeft" -> 0 - JUMP_LARGE
      [] key = "ArrowRight" -> JUMP_LARGE
      [] key = "z" -> 0 - JUMP_SMALL
      [] key = "x" -> JUMP_SMALL

\* the times a click on the timeline or a drag of the playhead may ask for, some
\* of them outside the video
AskedTimes == (0 - JUMP_LARGE)..(VideoLen + JUMP_LARGE)

\* C35: the player's time is always within [0, duration]; with the player ready
\* a jump key seeks to the time plus or minus 5 s or 2 s, or to the end of the
\* video it would pass, the selection of a highlight and a seek to any asked time
\* end within [0, duration], and so does the start of a clip of the sequential
\* playback; with the player not ready none of them changes the player
C35_SeekClamping ==
    /\ 0 <= playerTime /\ playerTime <= ytDuration
    /\ (phase = "loaded" /\ ytPlayerReady) =>
           /\ \A key \in {"ArrowLeft", "ArrowRight", "z", "x"} :
                  keydown(Cur, key, FALSE).playerTime =
                      IF playerTime + JumpOf(key) < 0 THEN 0
                      ELSE IF playerTime + JumpOf(key) > ytDuration THEN ytDuration
                      ELSE playerTime + JumpOf(key)
           /\ \A id \in HighlightIds(highlights) :
                  selectHighlight(Cur, id).playerTime \in 0..ytDuration
           /\ \A t \in AskedTimes : setCurrentTime(Cur, t).playerTime \in 0..ytDuration
           /\ isPlayingAll => playCurrentClip(Cur).playerTime \in 0..ytDuration
    /\ (phase = "loaded" /\ ~ytPlayerReady) =>
           /\ \A key \in {"ArrowLeft", "ArrowRight", "z", "x"} :
                  keydown(Cur, key, FALSE) = Cur
           /\ \A id \in HighlightIds(highlights) :
                  /\ selectHighlight(Cur, id).playerTime = playerTime
                  /\ selectHighlight(Cur, id).playerState = playerState
           /\ \A t \in AskedTimes : setCurrentTime(Cur, t) = Cur

\* the player is ready and at the end of a video shorter than 5 s: ArrowRight
\* stays at the end and ArrowLeft goes to 0
C35_Witness ==
    /\ phase = "loaded"
    /\ ytPlayerReady
    /\ playerTime = ytDuration
    /\ playerTime - JUMP_LARGE < 0
    /\ Len(highlights) > 0


\* the number of ':' in a text
Colons(text) == Cardinality({i \in 1..Len(text) : text[i] = ":"})

\* C36: a whole number of seconds formatted for the description and parsed is
\* the same number, written as M:SS below one hour and as H:MM:SS from one hour
\* on; a timestamp string the range pattern accepts, parsed, formatted and parsed
\* again gives what its first parse gave
C36_TimestampRoundTrip ==
    codecOut.done =>
        /\ codecOut.seconds = codecOut.first
        /\ (codecIn.op = "seconds") =>
               /\ codecOut.first = codecIn.seconds
               /\ Colons(codecOut.text) = IF codecIn.seconds < 3600 THEN 1 ELSE 2
        /\ (codecIn.op = "text") =>
               /\ codecOut.first = parseTimestamp(codecIn.text)
               /\ codecOut.first >= 0

\* the string "100:75:99", its fields above 59, has gone through parse, format
\* and parse
C36_Witness ==
    /\ codecOut.done
    /\ codecIn.op = "text"
    /\ codecIn.text = <<"1", "0", "0", ":", "7", "5", ":", "9", "9">>
    /\ codecOut.text # codecIn.text


\* C37: every response of the Worker, to a request of any method, path and v and
\* with any outcome of the lookup, carries Access-Control-Allow-Origin: *
C37_CorsOnEveryResponse ==
    /\ (response # NoResponse) => response.cors
    /\ \A req \in Requests, apiOutcome \in ApiOutcomes :
           WorkerFetch(req, kvConfigured, kv, ytVideos, apiOutcome).response.cors

=============================================================================
